---- MODULE Spec2Model ----
(***************************************************************************)
(* Genre-specialization panels.                                            *)
(*                                                                         *)
(* Spec is one pass of main() in isolation (the developer pass):           *)
(*                                                                         *)
(*   expand_to_company_rows -> compute_company_shares ->                   *)
(*   create_output_files (balance_company_panel, sort, to_csv)             *)
(*                                                                         *)
(* main() runs the same three functions a second time with the publisher   *)
(* columns; ids_col, id_col and company_df are their parameters, and the   *)
(* operators below are written over those parameters.  SpecMain is a whole *)
(* run of main(), from verify_file_exists to the exit of the process, with *)
(* both passes and the verification tracker, followed by the diversity     *)
(* analysis of the developer file.  The other specifications call one     *)
(* function on inputs drawn from a bounded set.                            *)
(*                                                                         *)
(* Data frames are sequences of records (row order is the frame's order).  *)
(* A nullable cell is a sequence of length <= 1: NaN is <<>>, a present    *)
(* value v is <<v>>.  A float that is the quotient of two integers is the  *)
(* fraction in lowest terms <<n, d>>: IEEE division maps equal quotients   *)
(* to the same float, so equality of reduced fractions is equality of the  *)
(* floats the code computes.                                               *)
(***************************************************************************)
EXTENDS Integers, Sequences, FiniteSets, TLC

VARIABLES
    pc,               \* the call of main() that runs next
    games_genres_df,  \* joined game x genre table (ids = the ids_col list)
    developers_df,    \* lookup table, pd.read_csv(DEVELOPERS_CSV)
    dev_rows_df,      \* result of expand_to_company_rows
    dev_shares_df,    \* result of compute_company_shares
    dev_balanced,     \* result of balance_company_panel
    dev_out,          \* rows written to developer_genre_shares.csv
    missing_files,    \* input files that do not exist
    db_rows,          \* rows of the games table of the database
    games_df,         \* result of extract_games_from_db, then of validate_ids
    publishers_df,    \* lookup table, pd.read_csv(PUBLISHERS_CSV)
    genres_df,        \* the genre vectors file, then load_genre_vectors' frame
    pub_rows_df,      \* the publisher counterparts of the dev_ frames
    pub_shares_df,
    pub_balanced,
    pub_out,
    checks,           \* tracker.checks
    warnings,         \* tracker.warnings
    audit_report,     \* AUDIT_REPORT as written by main, NaN before
    error,            \* the exception that left the try block, NaN if none
    exit_status,      \* exit status of the process, NaN while it runs
    developer_diversity, \* calculate_diversity_metrics on the developer file
    column_names,     \* argument genre_cols of a call of build_category_mappings
    mappings,         \* what the call returned or raised, NaN before
    raw_rows,         \* rows (id, raw_data) of the games table, as stored
    run_year,         \* the calendar year in which the run takes place
    parse_errors,     \* parse_errors of extract_games_from_db
    logged_errors,    \* "Error parsing game" lines extract_games_from_db logged
    errors            \* tracker.errors

(* The state of one pass (developer) *)
pass_vars == <<pc, games_genres_df, developers_df, dev_rows_df, dev_shares_df,
               dev_balanced, dev_out>>

(* The rest of the state of a run of main() *)
main_vars == <<missing_files, db_rows, games_df, publishers_df, genres_df,
               pub_rows_df, pub_shares_df, pub_balanced, pub_out,
               checks, warnings, audit_report, error, exit_status,
               developer_diversity>>

(* The state of the calls that are checked on their own *)
mapper_vars == <<column_names, mappings>>
extract_vars == <<raw_rows, run_year, parse_errors, logged_errors>>
tracker_vars == <<errors>>

unit_vars == <<mapper_vars, extract_vars, tracker_vars>>

vars == <<pass_vars, main_vars, unit_vars>>

----------------------------------------------------------------------------
(* Bounds of the model *)

MaxGames == 3
YearSpan == 3

(* The earliest year extract_games_from_db accepts. *)
MinValidYear == 1970

Years == MinValidYear .. (MinValidYear + YearSpan - 1)

----------------------------------------------------------------------------
(* Cells, fractions, generic helpers *)

NaN == <<>>
Val(v) == <<v>>
isna(c) == Len(c) = 0
notna(c) == Len(c) > 0

RECURSIVE GCD(_, _)
GCD(a, b) == IF b = 0 THEN a ELSE GCD(b, a % b)

(* n / d as the code's float division computes it, d > 0 *)
Quotient(n, d) == LET g == GCD(n, d) IN <<n \div g, d \div g>>

Zero == Quotient(0, 1)

RECURSIVE SumSeq(_)
SumSeq(s) == IF Len(s) = 0 THEN 0 ELSE Head(s) + SumSeq(Tail(s))

RECURSIVE AscendingSeq(_)
AscendingSeq(S) ==
    IF S = {} THEN <<>>
    ELSE LET m == CHOOSE x \in S : \A y \in S : x <= y
         IN <<m>> \o AscendingSeq(S \ {m})

(* The rows of frame s at the positions of set I, in frame order *)
Take(s, I) == LET ix == AscendingSeq(I) IN [p \in 1..Len(ix) |-> s[ix[p]]]

RECURSIVE Flatten(_)
Flatten(ss) == IF Len(ss) = 0 THEN <<>> ELSE Head(ss) \o Flatten(Tail(ss))

(* Stable sort of frame s by the strict order Less *)
StableSort(s, Less(_, _)) ==
    LET n == Len(s)
        Rank(i) == 1 + Cardinality({j \in 1..n :
                         \/ Less(s[j], s[i])
                         \/ (~Less(s[i], s[j]) /\ j < i)})
    IN [p \in 1..n |-> s[CHOOSE i \in 1..n : Rank(i) = p]]

----------------------------------------------------------------------------
(* Category Mapper: utils.build_category_mappings *)

(* The indicator columns of the genre table, in file order.  An identifier *)
(* category_<N>_genre_<M> is kept as the list col.split('_') produces.     *)
genre_cols ==
    << <<"category", 1, "genre", 1>>,
       <<"category", 1, "genre", 2>>,
       <<"category", 2, "genre", 5>> >>

(* Variant: every column is filed under category 1 *)
cat_id_of_one_category(col) == 1

(* parts[1] of the split identifier (0-based in the source) *)
cat_id_of(col) == col[2]

(* Variant: a category's columns are listed last seen first *)
build_category_mappings_last_first(cols) ==
    [c \in {cat_id_of(cols[k]) : k \in 1..Len(cols)} |->
        LET asc == AscendingSeq({k \in 1..Len(cols) : cat_id_of(cols[k]) = c})
        IN  [p \in 1..Len(asc) |-> asc[Len(asc) + 1 - p]]]

(* category_cols: category id -> the positions of its columns, in the      *)
(* order the columns are first seen                                        *)
build_category_mappings(cols) ==
    [c \in {cat_id_of(cols[k]) : k \in 1..Len(cols)} |->
        AscendingSeq({k \in 1..Len(cols) : cat_id_of(cols[k]) = c})]

----------------------------------------------------------------------------
(* Row Expansion: expand_to_company_rows *)

(* games with a non-empty ids_col list and a release year *)
games_with_company(df) ==
    Take(df, {i \in 1..Len(df) :
                 Len(df[i].ids) > 0 /\ notna(df[i].release_year)})

(* Variant: only the first id of every list gets a row *)
explode_first_id(df) ==
    [i \in 1..Len(df) |->
        [game_id      |-> df[i].game_id,
         company_id   |-> df[i].ids[1],
         release_year |-> df[i].release_year[1],
         genres       |-> df[i].genres]]

(* DataFrame.explode(ids_col), renamed to id_col, restricted to final_cols *)
explode(df) ==
    Flatten([i \in 1..Len(df) |->
        [p \in 1..Len(df[i].ids) |->
            [game_id      |-> df[i].game_id,
             company_id   |-> df[i].ids[p],
             release_year |-> df[i].release_year[1],
             genres       |-> df[i].genres]]])

SameTriple(a, b) ==
    /\ a.game_id = b.game_id
    /\ a.company_id = b.company_id
    /\ a.release_year = b.release_year

(* duplicated(subset=[game_id, id_col, release_year], keep=False).sum() *)
dup_count(rows) ==
    Cardinality({i \in 1..Len(rows) :
        \E j \in 1..Len(rows) : j # i /\ SameTriple(rows[i], rows[j])})

(* Variant: keep='last' *)
drop_duplicates_keep_last(rows) ==
    Take(rows, {i \in 1..Len(rows) :
        ~\E j \in (i + 1)..Len(rows) : SameTriple(rows[j], rows[i])})

(* drop_duplicates(subset=[game_id, id_col, release_year], keep='first') *)
drop_duplicates(rows) ==
    Take(rows, {i \in 1..Len(rows) :
        ~\E j \in 1..(i - 1) : SameTriple(rows[j], rows[i])})

expand_to_company_rows(df) ==
    LET company_rows == explode(games_with_company(df))
    IN  IF dup_count(company_rows) > 0
        THEN drop_duplicates(company_rows)
        ELSE company_rows

----------------------------------------------------------------------------
(* Cumulative Share Engine: compute_company_shares *)

(* Variant: 'release_year' left out of the sort key *)
RowKeyLess_without_year(a, b) ==
    \/ a.company_id < b.company_id
    \/ (a.company_id = b.company_id /\ a.game_id < b.game_id)

(* sort_values([company_id_col, 'release_year', 'game_id']) *)
RowKeyLess(a, b) ==
    \/ a.company_id < b.company_id
    \/ /\ a.company_id = b.company_id
       /\ \/ a.release_year < b.release_year
          \/ /\ a.release_year = b.release_year
             /\ a.game_id < b.game_id

(* Variant: the frame is not sorted *)
sort_rows_skipped(rows) == rows

sort_rows(rows) == StableSort(rows, RowKeyLess)

(* Variant: every game counts for every category (shares over the total  *)
(* game count)                                                            *)
category_has_every_game(row, cat_cols) == 1

(* Variant: only the first column of the category is looked at *)
category_has_first_col(row, cat_cols) ==
    IF row.genres[cat_cols[1]] > 0 THEN 1 ELSE 0

(* Step 2: (row[cat_cols].sum(axis=1) > 0).astype(int) *)
category_has(row, cat_cols) ==
    IF SumSeq([p \in 1..Len(cat_cols) |-> row.genres[cat_cols[p]]]) > 0
    THEN 1 ELSE 0

(* Variant: the value of row i, nothing accumulated *)
group_cumsum_current_row(vals, keys, i) == vals[i]

(* Steps 3-4: groupby(company_id_col, sort=False)[col].cumsum() at row i; *)
(* vals is the column, keys the company id column of the sorted frame     *)
group_cumsum(vals, keys, i) ==
    SumSeq(Take(vals, {j \in 1..i : keys[j] = keys[i]}))

(* Step 5: groupby(company_id_col, sort=False).cumcount() + 1 at row i *)
cumulative_game_count(keys, i) ==
    Cardinality({j \in 1..(i - 1) : keys[j] = keys[i]}) + 1

(* Variant: head(1), the first row of every company-year *)
company_year_first(sorted) ==
    {i \in 1..Len(sorted) :
        ~\E j \in 1..(i - 1) :
            /\ sorted[j].company_id = sorted[i].company_id
            /\ sorted[j].release_year = sorted[i].release_year}

(* Variant: grouped by company only, the last row of every company *)
company_last(sorted) ==
    {i \in 1..Len(sorted) :
        ~\E j \in (i + 1)..Len(sorted) :
            sorted[j].company_id = sorted[i].company_id}

(* Step 6: groupby([company_id_col, 'release_year'], sort=False).tail(1): *)
(* the positions of the last row of every company-year, in frame order    *)
company_year_snapshot(sorted) ==
    {i \in 1..Len(sorted) :
        ~\E j \in (i + 1)..Len(sorted) :
            /\ sorted[j].company_id = sorted[i].company_id
            /\ sorted[j].release_year = sorted[i].release_year}

(* Step 7: Series.replace(0, np.nan) on the category count *)
replace_zero(count) == IF count = 0 THEN NaN ELSE Val(count)

(* Step 7: DataFrame.div(num_games_with_cat, axis=0) on one cell *)
div(cumsum, num_games_with_cat) ==
    IF isna(num_games_with_cat) THEN NaN
    ELSE Val(Quotient(cumsum, num_games_with_cat[1]))

(* Variant: no fillna *)
fillna_skipped(c) == c

(* fillna(0.0) on one cell *)
fillna(c) == IF isna(c) THEN Val(Zero) ELSE c

(* merge(company_names, on=company_id_col, how='left') *)
merge_names(shares, lookup) ==
    Flatten([i \in 1..Len(shares) |->
        LET m == Take(lookup, {q \in 1..Len(lookup) :
                                  lookup[q].id = shares[i].company_id})
        IN  IF Len(m) = 0
            THEN << [shares[i] EXCEPT !.name = NaN] >>
            ELSE [p \in 1..Len(m) |-> [shares[i] EXCEPT !.name = m[p].name]]])

(* The frame compute_company_shares builds (when it returns) *)
compute_company_shares(rows, lookup, cols) ==
    LET category_cols == build_category_mappings(cols)
        sorted == sort_rows(rows)
        n == Len(sorted)
        keys == [i \in 1..n |-> sorted[i].company_id]
        has(c) == [i \in 1..n |-> category_has(sorted[i], category_cols[c])]
        col(k) == [i \in 1..n |-> sorted[i].genres[k]]
        snap == AscendingSeq(company_year_snapshot(sorted))
        share(i, k) ==
            fillna(div(group_cumsum(col(k), keys, i),
                       replace_zero(group_cumsum(has(cat_id_of(cols[k])),
                                                 keys, i))))
        shares_df ==
            [p \in 1..Len(snap) |->
                [company_id |-> sorted[snap[p]].company_id,
                 name       |-> NaN,
                 Year       |-> sorted[snap[p]].release_year,
                 num_games  |-> Val(cumulative_game_count(keys, snap[p])),
                 shares     |-> [k \in 1..Len(cols) |-> share(snap[p], k)]]]
    IN  merge_names(shares_df, lookup)

(* line 902: len(company_shares) / len(company_ids) divides by zero when   *)
(* the frame is empty; the ZeroDivisionError leaves the function           *)
compute_raises(rows, lookup, cols) ==
    Len(compute_company_shares(rows, lookup, cols)) = 0

----------------------------------------------------------------------------
(* Panel Balancer: balance_company_panel *)

(* set_index([company_id_col, 'Year_dt']).sort_index() *)
PanelKeyLess(a, b) ==
    \/ a.company_id < b.company_id
    \/ (a.company_id = b.company_id /\ a.Year < b.Year)

(* Variant: no row is added for a missing year *)
resample_company_observed_only(group) == group

(* resample_company: group.resample('YS').asfreq() on the rows of one     *)
(* company, ordered by year: one row per year from the first to the last; *)
(* a year with no row gets NaN in every column                            *)
resample_company(group) ==
    LET lo == group[1].Year
        hi == group[Len(group)].Year
    IN  [p \in 1..(hi - lo + 1) |->
            LET hit == {i \in 1..Len(group) : group[i].Year = lo + p - 1}
            IN  IF hit = {}
                THEN [company_id |-> group[1].company_id,
                      name       |-> NaN,
                      Year       |-> lo + p - 1,
                      num_games  |-> NaN,
                      shares     |-> [k \in DOMAIN group[1].shares |-> NaN]]
                ELSE group[CHOOSE i \in hit : TRUE]]

(* groupby(level=0).apply(resample_company): groups in ascending id order *)
resample(df) ==
    LET resample_df == StableSort(df, PanelKeyLess)
        ids == AscendingSeq({df[i].company_id : i \in 1..Len(df)})
    IN  Flatten([g \in 1..Len(ids) |->
            resample_company(Take(resample_df,
                {i \in 1..Len(resample_df) :
                    resample_df[i].company_id = ids[g]}))])

(* groupby(level=0)[col].ffill(): the last value present at or before row *)
(* i among the rows of the same company                                   *)
groupby_ffill(cells, keys) ==
    [i \in 1..Len(cells) |->
        LET P == {j \in 1..i : keys[j] = keys[i] /\ notna(cells[j])}
        IN  IF P = {} THEN NaN
            ELSE cells[CHOOSE j \in P : \A q \in P : q <= j]]

(* Series.bfill() on the result: the first value present at or after row  *)
(* i in the whole column                                                  *)
bfill(cells) ==
    [i \in 1..Len(cells) |->
        LET N == {j \in i..Len(cells) : notna(cells[j])}
        IN  IF N = {} THEN NaN
            ELSE cells[CHOOSE j \in N : \A q \in N : j <= q]]

(* resampled.groupby(level=0)[col].ffill().bfill() *)
fill_column(cells, keys) == bfill(groupby_ffill(cells, keys))

balance_company_panel(df) ==
    LET resampled == resample(df)
        n == Len(resampled)
        keys == [i \in 1..n |-> resampled[i].company_id]
        name_col == fill_column([i \in 1..n |-> resampled[i].name], keys)
        share_col(k) ==
            fill_column([i \in 1..n |-> resampled[i].shares[k]], keys)
        num_games_col ==
            fill_column([i \in 1..n |-> resampled[i].num_games], keys)
        filled ==
            [i \in 1..n |->
                [company_id |-> resampled[i].company_id,
                 name       |-> name_col[i],
                 Year       |-> resampled[i].Year,
                 num_games  |-> num_games_col[i],
                 shares     |-> [k \in DOMAIN resampled[i].shares |->
                                    share_col(k)[i]]]]
    IN  StableSort(filled, PanelKeyLess)

----------------------------------------------------------------------------
(* Output Writer: create_output_files *)

(* sort_values(['Year', 'developer_id']) *)
OutKeyLess(a, b) ==
    \/ a.Year < b.Year
    \/ (a.Year = b.Year /\ a.company_id < b.company_id)

(* Variant: the file keeps the order of the balanced panel *)
sort_output_skipped(df) == df

sort_output(df) == StableSort(df, OutKeyLess)

(* lines 1152-1154: dev_with_multi_years[dev_with_multi_years > 1].index[0] *)
(* raises IndexError when no developer has more than one row              *)
spot_check_raises(out) ==
    /\ Len(out) > 0
    /\ ~\E i, j \in 1..Len(out) :
            i # j /\ out[i].company_id = out[j].company_id

----------------------------------------------------------------------------
(* Inputs *)

(* Indicator rows of the genre table that survive join_games_genres       *)
(* (at least one indicator set)                                           *)
GenreVectors ==
    { <<1, 0, 0>>, <<1, 1, 0>>, <<0, 0, 1>>, <<0, 1, 1>> }
FewVectors == { <<1, 0, 0>>, <<0, 1, 1>> }

(* Lists validate_ids leaves in the id column: every id is in the lookup  *)
CompanyLists == { <<1>>, <<1, 2>> }
AnyLists == { <<>>, <<1>>, <<2>>, <<1, 2>>, <<2, 1>>, <<1, 1>>, <<1, 2, 1>> }

(* Games with a year and a company, and games that may lack either or     *)
(* repeat an id in the list                                               *)
FullGames ==
    [release_year : {Val(y) : y \in Years},
     ids : CompanyLists, genres : GenreVectors]
AnyGames ==
    [release_year : {NaN} \cup {Val(y) : y \in Years},
     ids : AnyLists, genres : FewVectors]

Catalog(f) ==
    [i \in DOMAIN f |->
        [game_id |-> i, release_year |-> f[i].release_year,
         ids |-> f[i].ids, genres |-> f[i].genres]]

FullCatalogs == {Catalog(f) : f \in [1..MaxGames -> FullGames]}
ShortCatalogs ==
    UNION {{Catalog(f) : f \in [1..n -> AnyGames]} : n \in 0..(MaxGames - 1)}

(* A genre table that holds two rows for one game_id: the left merge of    *)
(* join_games_genres (line 407) repeats the game, once per genre row, and *)
(* its "No duplicates introduced" check only records that                 *)
JoinDuplicates ==
    { << [game_id |-> 1, release_year |-> g.release_year,
          ids |-> g.ids, genres |-> g.genres],
         [game_id |-> 1, release_year |-> g.release_year,
          ids |-> g.ids, genres |-> v] >> :
        g \in AnyGames, v \in FewVectors }

(* Lookup tables as read_csv returns them: unique ids; a name field that  *)
(* is empty or one of read_csv's default NA strings is read as NaN        *)
NamedLookup ==
    << [id |-> 1, name |-> Val("Alpha")], [id |-> 2, name |-> Val("Beta")] >>
Lookups ==
    { << [id |-> 1, name |-> a], [id |-> 2, name |-> b] >> :
          a \in {Val("Alpha"), NaN}, b \in {Val("Beta"), NaN} }

----------------------------------------------------------------------------
(* The pass *)

(* no call of the unit specifications is made *)
MapperIdle ==
    /\ column_names = << >>
    /\ mappings = NaN

ExtractIdle ==
    /\ raw_rows = << >>
    /\ run_year = 0
    /\ parse_errors = 0
    /\ logged_errors = 0

TrackerIdle == errors = << >>

UnitIdle == MapperIdle /\ ExtractIdle /\ TrackerIdle

Init ==
    /\ pc = "expand_to_company_rows"
    /\ UnitIdle
    /\ \/ games_genres_df \in FullCatalogs /\ developers_df = NamedLookup
       \/ games_genres_df \in ShortCatalogs /\ developers_df \in Lookups
       \/ games_genres_df \in JoinDuplicates /\ developers_df = NamedLookup
    /\ dev_rows_df = <<>>
    /\ dev_shares_df = <<>>
    /\ dev_balanced = <<>>
    /\ dev_out = <<>>
    /\ missing_files = {}
    /\ db_rows = <<>>
    /\ games_df = <<>>
    /\ publishers_df = <<>>
    /\ genres_df = <<>>
    /\ pub_rows_df = <<>>
    /\ pub_shares_df = <<>>
    /\ pub_balanced = <<>>
    /\ pub_out = <<>>
    /\ checks = <<>>
    /\ warnings = <<>>
    /\ audit_report = NaN
    /\ error = NaN
    /\ exit_status = NaN
    /\ developer_diversity = <<>>

(* main, lines 1219-1226 *)
ExpandToCompanyRows ==
    /\ pc = "expand_to_company_rows"
    /\ dev_rows_df' = expand_to_company_rows(games_genres_df)
    /\ pc' = "compute_company_shares"
    /\ UNCHANGED <<games_genres_df, developers_df, dev_shares_df,
                   dev_balanced, dev_out>>
    /\ UNCHANGED main_vars
    /\ UNCHANGED unit_vars

(* main, lines 1239-1247; an exception is caught at line 1277 *)
ComputeCompanyShares ==
    /\ pc = "compute_company_shares"
    /\ IF compute_raises(dev_rows_df, developers_df, genre_cols)
       THEN /\ pc' = "fatal"
            /\ UNCHANGED dev_shares_df
       ELSE /\ pc' = "create_output_files"
            /\ dev_shares_df' =
                   compute_company_shares(dev_rows_df, developers_df, genre_cols)
    /\ UNCHANGED <<games_genres_df, developers_df, dev_rows_df,
                   dev_balanced, dev_out>>
    /\ UNCHANGED main_vars
    /\ UNCHANGED unit_vars

(* main, line 1261: the panel is balanced, sorted and written, then the   *)
(* spot check runs                                                        *)
CreateOutputFiles ==
    /\ pc = "create_output_files"
    /\ dev_balanced' = balance_company_panel(dev_shares_df)
    /\ dev_out' = sort_output(dev_balanced')
    /\ pc' = IF spot_check_raises(dev_out') THEN "fatal" ELSE "done"
    /\ UNCHANGED <<games_genres_df, developers_df, dev_rows_df,
                   dev_shares_df>>
    /\ UNCHANGED main_vars
    /\ UNCHANGED unit_vars

Next ==
    \/ ExpandToCompanyRows
    \/ ComputeCompanyShares
    \/ CreateOutputFiles

Spec == Init /\ [][Next]_vars

----------------------------------------------------------------------------
(* Reference quantities of the claims, counted on the row set directly.   *)

RowIdx == 1..Len(dev_rows_df)

(* the rows of company c released in or before year y *)
History(c, y) ==
    {i \in RowIdx : dev_rows_df[i].company_id = c
                    /\ dev_rows_df[i].release_year <= y}

(* ... that have at least one indicator of the category of column k set *)
ActiveHistory(c, y, k) ==
    {i \in History(c, y) :
        \E q \in 1..Len(genre_cols) :
            /\ genre_cols[q][2] = genre_cols[k][2]
            /\ dev_rows_df[i].genres[q] = 1}

(* ... that have indicator k set *)
IndicatorHistory(c, y, k) ==
    {i \in History(c, y) : dev_rows_df[i].genres[k] = 1}

HasRow(c, y) ==
    \E i \in RowIdx : dev_rows_df[i].company_id = c
                      /\ dev_rows_df[i].release_year = y

(* compute_company_shares has returned its frame *)
EngineReturned == pc = "create_output_files"

(* create_output_files has written the file *)
FileWritten == pc = "done" \/ (pc = "fatal" /\ Len(dev_shares_df) > 0)

ShareIdx == 1..Len(dev_shares_df)

(* the cell holds the float a / b *)
IsQuotient(cell, a, b) ==
    /\ notna(cell)
    /\ cell[1][2] > 0
    /\ cell[1][1] * b = a * cell[1][2]

----------------------------------------------------------------------------
(* C1: for every company-year with a row and every indicator k whose      *)
(* category has a positive cumulative active-game count, the engine       *)
(* outputs share[k] = (rows of the company up to the year with indicator  *)
(* k set) / (rows of the company up to the year active in k's category).  *)
C1_ShareIsCumulativeRatio ==
    EngineReturned =>
        \A i \in RowIdx : \A k \in 1..Len(genre_cols) :
            LET c == dev_rows_df[i].company_id
                y == dev_rows_df[i].release_year
                kc == Cardinality(ActiveHistory(c, y, k))
                recs == {p \in ShareIdx : dev_shares_df[p].company_id = c
                                           /\ dev_shares_df[p].Year = y}
            IN  kc > 0 =>
                /\ recs # {}
                /\ \A p \in recs :
                      IsQuotient(dev_shares_df[p].shares[k],
                                 Cardinality(IndicatorHistory(c, y, k)), kc)

(* a share of 1/2 built from two years of history, as in the end-to-end   *)
(* scenario of the specification                                          *)
C1_Witness ==
    /\ EngineReturned
    /\ \E p \in ShareIdx : \E k \in 1..Len(genre_cols) :
          LET r == dev_shares_df[p]
          IN  /\ r.shares[k] = Val(<<1, 2>>)
              /\ Cardinality(ActiveHistory(r.company_id, r.Year, k)) = 2
              /\ \E i \in History(r.company_id, r.Year) :
                    dev_rows_df[i].release_year < r.Year

(* C2: num_games of every output record is the number of the company's    *)
(* rows released in or before the record's year, rows of the year itself  *)
(* all included.                                                          *)
C2_NumGamesIsCumulativeCount ==
    EngineReturned =>
        \A p \in ShareIdx :
            dev_shares_df[p].num_games =
                Val(Cardinality(History(dev_shares_df[p].company_id,
                                        dev_shares_df[p].Year)))

(* a record whose year holds two rows of the company *)
C2_Witness ==
    /\ EngineReturned
    /\ \E p \in ShareIdx : \E i, j \in RowIdx :
          /\ i # j
          /\ dev_rows_df[i].company_id = dev_shares_df[p].company_id
          /\ dev_rows_df[j].company_id = dev_shares_df[p].company_id
          /\ dev_rows_df[i].release_year = dev_shares_df[p].Year
          /\ dev_rows_df[j].release_year = dev_shares_df[p].Year
          /\ dev_shares_df[p].num_games = Val(3)

(* num_games never decreases with the year within one company of a frame *)
Monotone(df) ==
    \A i, j \in 1..Len(df) :
        (df[i].company_id = df[j].company_id /\ df[i].Year < df[j].Year)
            => /\ notna(df[i].num_games)
               /\ notna(df[j].num_games)
               /\ df[i].num_games[1] <= df[j].num_games[1]

C4_ZeroCountGivesZeroShare ==
    EngineReturned =>
        \A p \in ShareIdx : \A k \in 1..Len(genre_cols) :
            Cardinality(ActiveHistory(dev_shares_df[p].company_id,
                                      dev_shares_df[p].Year, k)) = 0
                => dev_shares_df[p].shares[k] = Val(<<0, 1>>)

(* a record with an untouched category next to a touched one *)
C4_Witness ==
    /\ EngineReturned
    /\ \E p \in ShareIdx : \E k, q \in 1..Len(genre_cols) :
          LET r == dev_shares_df[p]
          IN  /\ Cardinality(ActiveHistory(r.company_id, r.Year, k)) = 0
              /\ Cardinality(ActiveHistory(r.company_id, r.Year, q)) > 0
              /\ r.shares[k] = Val(<<0, 1>>)

(* C5: every output share is present and lies in [0, 1].                  *)
C5_SharesInUnitInterval ==
    \A p \in ShareIdx : \A k \in 1..Len(genre_cols) :
        LET cell == dev_shares_df[p].shares[k]
        IN  /\ notna(cell)
            /\ cell[1][2] > 0
            /\ 0 <= cell[1][1]
            /\ cell[1][1] <= cell[1][2]

(* a record with a share strictly between 0 and 1 and a share equal to 1 *)
C5_Witness ==
    /\ EngineReturned
    /\ \E p \in ShareIdx : \E k, q \in 1..Len(genre_cols) :
          /\ dev_shares_df[p].shares[k] = Val(<<2, 3>>)
          /\ dev_shares_df[p].shares[q] = Val(<<1, 1>>)

(* C6: the engine outputs exactly one record for every (company, year)    *)
(* that has a row, and none for any other pair.                           *)
C6_OneRecordPerCompanyYear ==
    EngineReturned =>
        /\ \A i \in RowIdx :
              Cardinality({p \in ShareIdx :
                  /\ dev_shares_df[p].company_id = dev_rows_df[i].company_id
                  /\ dev_shares_df[p].Year = dev_rows_df[i].release_year}) = 1
        /\ \A p \in ShareIdx :
              HasRow(dev_shares_df[p].company_id, dev_shares_df[p].Year)

(* more rows than records: a company-year with several rows, and a        *)
(* company with rows in two different years                               *)
C6_Witness ==
    /\ EngineReturned
    /\ Len(dev_shares_df) < Len(dev_rows_df)
    /\ \E p, q \in ShareIdx :
          /\ dev_shares_df[p].company_id = dev_shares_df[q].company_id
          /\ dev_shares_df[p].Year # dev_shares_df[q].Year

----------------------------------------------------------------------------
(* Catalogs small enough to try every order of their rows *)

MaxPermutedRows == 4

InitPermutation ==
    /\ Init
    /\ Len(expand_to_company_rows(games_genres_df)) <= MaxPermutedRows

SpecPermutation == InitPermutation /\ [][Next]_vars

(* C7: the engine's frame is a function of the row set: every order of    *)
(* the rows gives the frame the engine returned.                          *)
C7_OrderIndependent ==
    EngineReturned =>
        \A f \in Permutations(RowIdx) :
            compute_company_shares([i \in RowIdx |-> dev_rows_df[f[i]]],
                                   developers_df, genre_cols)
                = dev_shares_df

(* four rows of two companies, two of them in one company-year, handed    *)
(* over in an order that is not the sorted one                            *)
C7_Witness ==
    /\ EngineReturned
    /\ Len(dev_rows_df) = MaxPermutedRows
    /\ Len(dev_shares_df) = 3
    /\ dev_rows_df # sort_rows(dev_rows_df)

----------------------------------------------------------------------------
(* Reference quantities of the balancer claims *)

ObservedYears(c) ==
    {dev_shares_df[p].Year : p \in {q \in ShareIdx :
                                       dev_shares_df[q].company_id = c}}

FirstYear(c) == CHOOSE y \in ObservedYears(c) : \A z \in ObservedYears(c) : y <= z
LastYear(c) == CHOOSE y \in ObservedYears(c) : \A z \in ObservedYears(c) : z <= y

(* C8: the balanced panel holds exactly one row for every year between a  *)
(* company's first and last observed year, and no other row.              *)
C8_OneRowPerYearOfSpan ==
    FileWritten =>
        /\ \A p \in ShareIdx :
              LET c == dev_shares_df[p].company_id
              IN  \A y \in FirstYear(c)..LastYear(c) :
                      Cardinality({b \in 1..Len(dev_balanced) :
                          /\ dev_balanced[b].company_id = c
                          /\ dev_balanced[b].Year = y}) = 1
        /\ \A b \in 1..Len(dev_balanced) :
              LET c == dev_balanced[b].company_id
              IN  /\ ObservedYears(c) # {}
                  /\ FirstYear(c) <= dev_balanced[b].Year
                  /\ dev_balanced[b].Year <= LastYear(c)

(* a company observed in the first and the last year of the window only;  *)
(* another company observed in one year                                   *)
C8_Witness ==
    /\ FileWritten
    /\ \E c, d \in {dev_shares_df[p].company_id : p \in ShareIdx} :
          /\ Cardinality(ObservedYears(c)) = 2
          /\ LastYear(c) - FirstYear(c) >= 2
          /\ Cardinality(ObservedYears(d)) = 1
    /\ Len(dev_balanced) > Len(dev_shares_df)

(* the input record of company c at its largest observed year <= y *)
SourceRecord(c, y) ==
    dev_shares_df[CHOOSE p \in ShareIdx :
        /\ dev_shares_df[p].company_id = c
        /\ dev_shares_df[p].Year <= y
        /\ \A q \in ShareIdx :
              (dev_shares_df[q].company_id = c /\ dev_shares_df[q].Year <= y)
                  => dev_shares_df[q].Year <= dev_shares_df[p].Year]

(* C9: every balanced record has the num_games, the shares and the        *)
(* company name of the company's input record at the largest observed     *)
(* year <= its year.                                                      *)
C9_CarriesLatestObserved ==
    FileWritten =>
        \A b \in 1..Len(dev_balanced) :
            LET r == dev_balanced[b]
                src == SourceRecord(r.company_id, r.Year)
            IN  /\ r.num_games = src.num_games
                /\ r.shares = src.shares
                /\ r.name = src.name

(* C9, the part the code keeps: num_games and the shares are carried      *)
C9_CarriesLatestValues ==
    FileWritten =>
        \A b \in 1..Len(dev_balanced) :
            LET r == dev_balanced[b]
                src == SourceRecord(r.company_id, r.Year)
            IN  /\ r.num_games = src.num_games
                /\ r.shares = src.shares

(* a gap year filled from the earlier of two different observed records *)
C9_Witness ==
    /\ FileWritten
    /\ \E b \in 1..Len(dev_balanced) :
          LET r == dev_balanced[b]
          IN  /\ ~HasRow(r.company_id, r.Year)
              /\ r.num_games = SourceRecord(r.company_id, r.Year).num_games
              /\ r.shares # SourceRecord(r.company_id, LastYear(r.company_id)).shares

----------------------------------------------------------------------------
(* Row expansion claims *)

Expanded == pc # "expand_to_company_rows"

(* the rows of the expansion before deduplication, in expansion order *)
ExplodedRows == explode(games_with_company(games_genres_df))

(* position in frame ex of the first row with the triple of row r *)
FirstOccurrence(ex, r) ==
    CHOOSE i \in 1..Len(ex) :
        /\ SameTriple(ex[i], r)
        /\ \A j \in 1..(i - 1) : ~SameTriple(ex[j], r)

(* C10: the returned rows are unique on (game_id, company_id,             *)
(* release_year), and of the rows sharing a triple the first one in       *)
(* expansion order is kept, in its place.                                 *)
C10_UniqueTriplesFirstKept ==
    Expanded =>
        LET ex == ExplodedRows
            first == [p \in RowIdx |-> FirstOccurrence(ex, dev_rows_df[p])]
        IN  /\ \A p, q \in RowIdx :
                  p # q => ~SameTriple(dev_rows_df[p], dev_rows_df[q])
            /\ \A i \in 1..Len(ex) :
                  \E p \in RowIdx : SameTriple(dev_rows_df[p], ex[i])
            /\ \A p \in RowIdx :
                  /\ \E i \in 1..Len(ex) : SameTriple(ex[i], dev_rows_df[p])
                  /\ dev_rows_df[p] = ex[first[p]]
            /\ \A p, q \in RowIdx : p < q => first[p] < first[q]

(* two exploded rows share a triple and differ in their indicators *)
C10_Witness ==
    /\ Expanded
    /\ LET ex == ExplodedRows
       IN  /\ Len(dev_rows_df) < Len(ex)
           /\ \E i, j \in 1..Len(ex) :
                 /\ i < j
                 /\ SameTriple(ex[i], ex[j])
                 /\ ex[i] # ex[j]

----------------------------------------------------------------------------
(* C11: the duplicate count expand_to_company_rows reports ("Removed n")  *)
(* is the number of rows deduplication removes: rows before minus rows    *)
(* after; two identical rows collapse to one and the report says 1.       *)
C11_ReportedCountIsRowsRemoved ==
    Expanded =>
        dup_count(ExplodedRows) = Len(ExplodedRows) - Len(dev_rows_df)

(* C12: a row exists for (game, company) exactly when the game has a      *)
(* release year and the company is in its id list; every row carries the  *)
(* year and the indicator vector of a game of its game_id that lists its   *)
(* company; ids and years of the rows are present values.                 *)
C12_RowIffYearAndListed ==
    Expanded =>
        LET df == games_genres_df
            listed(i, c) == \E p \in 1..Len(df[i].ids) : df[i].ids[p] = c
        IN  /\ \A i \in 1..Len(df) : \A c \in {1, 2} :
                  (notna(df[i].release_year) /\ listed(i, c))
                      => \E p \in RowIdx :
                            /\ dev_rows_df[p].game_id = df[i].game_id
                            /\ dev_rows_df[p].company_id = c
            /\ \A p \in RowIdx :
                  /\ \E i \in 1..Len(df) :
                        /\ df[i].game_id = dev_rows_df[p].game_id
                        /\ listed(i, dev_rows_df[p].company_id)
                        /\ df[i].release_year = Val(dev_rows_df[p].release_year)
                        /\ df[i].genres = dev_rows_df[p].genres
                  /\ dev_rows_df[p].company_id \in {1, 2}
                  /\ dev_rows_df[p].release_year \in Years

(* a game without a year that lists a company, a game with no company,    *)
(* and a game whose two companies each got a row                          *)
C12_Witness ==
    /\ Expanded
    /\ \E i \in 1..Len(games_genres_df) :
          /\ isna(games_genres_df[i].release_year)
          /\ Len(games_genres_df[i].ids) > 0
    /\ \E i \in 1..Len(games_genres_df) :
          /\ notna(games_genres_df[i].release_year)
          /\ games_genres_df[i].ids = <<2, 1>>
    /\ Len(dev_rows_df) = 2

----------------------------------------------------------------------------
(* A whole run of main(): the verification tracker                        *)

(* VerificationTracker.add_check: one entry of tracker.checks.  details   *)
(* holds the numbers the message is formatted from, in message order      *)
Check(check_name, passed, details) ==
    [check |-> check_name, passed |-> passed, details |-> details]

(* VerificationTracker.add_warning: one entry of tracker.warnings *)
Warning(message, details) == [message |-> message, details |-> details]

(* VerificationTracker.errors: add_check appends the failed entries *)
errors_of(recorded) ==
    Take(recorded, {i \in 1..Len(recorded) : ~recorded[i].passed})

(* an optional entry: <<e>> when cond holds, nothing otherwise *)
When(cond, e) == IF cond THEN <<e>> ELSE <<>>

Range(seq) == {seq[i] : i \in 1..Len(seq)}

Min(S) == CHOOSE x \in S : \A y \in S : x <= y
Max(S) == CHOOSE x \in S : \A y \in S : y <= x

----------------------------------------------------------------------------
(* Entity extraction: extract_games_from_db *)

(* The latest year extract_games_from_db accepts *)
MaxValidYear == 2026

(* lines 89-110: the years of the release dates that pass the sanity      *)
(* check; release_year is their minimum, None when there is none.         *)
(* release_dates holds int(release_date.split('-')[0]) of every date      *)
release_year_of(release_dates) ==
    LET dates == {release_dates[i] : i \in
                     {j \in 1..Len(release_dates) :
                         /\ MinValidYear <= release_dates[j]
                         /\ release_dates[j] <= MaxValidYear}}
    IN  IF dates = {} THEN NaN ELSE Val(Min(dates))

(* lines 85-118: games_data, one record per row of the games table *)
extract_games_from_db(rows) ==
    [i \in 1..Len(rows) |->
        [game_id       |-> rows[i].game_id,
         release_year  |-> release_year_of(rows[i].release_dates),
         developer_ids |-> rows[i].developers,
         publisher_ids |-> rows[i].publishers]]

(* line 138: pd.DataFrame([]) has no column, df['developer_ids'] raises   *)
(* KeyError                                                               *)
extract_raises(rows) == Len(rows) = 0

(* lines 131-170: the checks extract_games_from_db records *)
extract_checks(rows) ==
    LET df == extract_games_from_db(rows)
        n == Len(df)
        no_devs == Cardinality({i \in 1..n : Len(df[i].developer_ids) = 0})
        no_pubs == Cardinality({i \in 1..n : Len(df[i].publisher_ids) = 0})
        no_year == Cardinality({i \in 1..n : isna(df[i].release_year)})
        years == {df[i].release_year[1] : i \in
                     {j \in 1..n : notna(df[j].release_year)}}
    IN  << Check("Games extracted", TRUE, <<n>>) >>
        \o (IF extract_raises(rows) THEN <<>> ELSE
            << Check("Games with developers", 2 * no_devs < n,
                     <<n - no_devs, no_devs>>),
               Check("Games with publishers", 2 * no_pubs < n,
                     <<n - no_pubs, no_pubs>>),
               Check("Games with release year", 10 * no_year < 3 * n,
                     <<n - no_year, no_year>>) >>
            \o When(n - no_year > 0,
                    Check("Year range reasonable",
                          years # {} /\ MinValidYear <= Min(years)
                                     /\ Max(years) <= MaxValidYear,
                          IF years = {} THEN <<>>
                          ELSE <<Min(years), Max(years)>>)))

----------------------------------------------------------------------------
(* ID validation: validate_ids *)

(* Variant: the list is returned as it is *)
clean_id_list_kept(id_list, valid_ids) == id_list

(* lines 268-271: [id for id in id_list if id in valid_ids] *)
clean_id_list(id_list, valid_ids) ==
    Take(id_list, {p \in 1..Len(id_list) : id_list[p] \in valid_ids})

(* lines 189-212 for one role: the ids of the games that are not in the   *)
(* lookup table                                                           *)
unmatched_ids(df, ids_col, lookup) ==
    UNION {Range(df[i][ids_col]) : i \in 1..Len(df)}
        \ {lookup[q].id : q \in 1..Len(lookup)}

(* lines 273-276: both id columns cleaned *)
validate_ids(df, devs, pubs) ==
    [i \in 1..Len(df) |->
        [df[i] EXCEPT
            !.developer_ids = clean_id_list(@, {devs[q].id : q \in 1..Len(devs)}),
            !.publisher_ids = clean_id_list(@, {pubs[q].id : q \in 1..Len(pubs)})]]

(* lines 215-224: the match rate of one role, 1.0 when no id occurs *)
match_rate(df, ids_col, lookup) ==
    LET all_ids == UNION {Range(df[i][ids_col]) : i \in 1..Len(df)}
        unmatched == unmatched_ids(df, ids_col, lookup)
    IN  IF all_ids = {} THEN Quotient(1, 1)
        ELSE Quotient(Cardinality(all_ids) - Cardinality(unmatched),
                      Cardinality(all_ids))

(* lines 247-254: games with an id that is not in the lookup table *)
games_with_bad_ids(df, ids_col, lookup) ==
    Cardinality({i \in 1..Len(df) :
        Range(df[i][ids_col]) \cap unmatched_ids(df, ids_col, lookup) # {}})

(* lines 218-224, 256-262, 285-287 *)
validate_checks(df, devs, pubs) ==
    LET dev_rate == match_rate(df, "developer_ids", devs)
        pub_rate == match_rate(df, "publisher_ids", pubs)
        bad_devs == games_with_bad_ids(df, "developer_ids", devs)
        bad_pubs == games_with_bad_ids(df, "publisher_ids", pubs)
    IN  << Check("Developer ID match rate",
                 100 * dev_rate[1] >= 95 * dev_rate[2], <<dev_rate>>),
           Check("Publisher ID match rate",
                 100 * pub_rate[1] >= 95 * pub_rate[2], <<pub_rate>>),
           Check("Games with valid developer IDs", 10 * bad_devs < Len(df),
                 <<Len(df) - bad_devs, bad_devs>>),
           Check("Games with valid publisher IDs", 10 * bad_pubs < Len(df),
                 <<Len(df) - bad_pubs, bad_pubs>>),
           Check("Data cleaning successful", TRUE,
                 <<Cardinality(unmatched_ids(df, "developer_ids", devs)),
                   Cardinality(unmatched_ids(df, "publisher_ids", pubs))>>) >>

(* lines 227-241 *)
validate_warnings(df, devs, pubs) ==
    LET unmatched_devs == unmatched_ids(df, "developer_ids", devs)
        unmatched_pubs == unmatched_ids(df, "publisher_ids", pubs)
    IN  When(unmatched_devs # {},
             Warning("orphaned developer IDs not in lookup table",
                     <<Cardinality(unmatched_devs)>>))
        \o When(unmatched_pubs # {},
                Warning("orphaned publisher IDs not in lookup table",
                        <<Cardinality(unmatched_pubs)>>))

----------------------------------------------------------------------------
(* Genre vectors: load_genre_vectors and join_games_genres *)

(* The number of indicator columns the checks expect *)
ExpectedGenreCols == 230

(* line 375: int(genre_sums.min()) raises ValueError (NaN) when the file  *)
(* has no row                                                             *)
load_raises(genres) == Len(genres) = 0

(* lines 314-382: the checks load_genre_vectors records; the file has the *)
(* columns game_id, title and genre_cols, numeric and without nulls       *)
load_checks(genres, cols) ==
    LET n == Len(genres)
        values == UNION {Range(genres[i].genres) : i \in 1..n}
        no_genres == Cardinality({i \in 1..n : SumSeq(genres[i].genres) = 0})
    IN  << Check("Has game_id column", TRUE, <<>>),
           Check("Has title column", TRUE, <<>>),
           Check("Has correct number of genre columns",
                 Len(cols) = ExpectedGenreCols, <<Len(cols)>>),
           Check("Genre values are binary (0 or 1)",
                 values \subseteq {0, 1}, <<>>),
           Check("Genre vectors loaded", TRUE, <<n, Len(cols)>>),
           Check("No NULL values in genre columns", TRUE, <<>>),
           Check("All genre columns numeric", TRUE, <<Len(cols)>>) >>
        \o When(~load_raises(genres),
                Check("Most games have genres", 10 * no_genres < n,
                      <<n - no_genres>>))

(* line 407: games_df.merge(genres_df[['game_id'] + genre_cols],          *)
(* on='game_id', how='left'): a game without a genre row keeps one row    *)
(* with null indicators                                                   *)
merge_genres(games, genres) ==
    Flatten([i \in 1..Len(games) |->
        LET m == Take(genres, {q \in 1..Len(genres) :
                                  genres[q].game_id = games[i].game_id})
            row(g) == [game_id       |-> games[i].game_id,
                       release_year  |-> games[i].release_year,
                       developer_ids |-> games[i].developer_ids,
                       publisher_ids |-> games[i].publisher_ids,
                       genres        |-> g]
        IN  IF Len(m) = 0 THEN << row(NaN) >>
            ELSE [p \in 1..Len(m) |-> row(Val(m[p].genres))]])

(* lines 421, 436: the rows whose first genre column is null / not null *)
games_without_genres(merged) ==
    {i \in 1..Len(merged) : isna(merged[i].genres)}

(* line 436: merged_df[merged_df[first_genre_col].notna()] *)
with_genres(merged) ==
    LET kept == Take(merged, (1..Len(merged)) \ games_without_genres(merged))
    IN  [i \in 1..Len(kept) |-> [kept[i] EXCEPT !.genres = @[1]]]

(* lines 443-444: rows whose indicators sum to 0 *)
games_with_zero_genres(df) ==
    {i \in 1..Len(df) : SumSeq(df[i].genres) = 0}

(* Variant: the 0-genre rows are not removed *)
drop_zero_genres_skipped(df) == df

(* lines 446-449: merged_df[genre_sums > 0] *)
drop_zero_genres(df) ==
    Take(df, (1..Len(df)) \ games_with_zero_genres(df))

join_games_genres(games, genres) ==
    drop_zero_genres(with_genres(merge_genres(games, genres)))

(* lines 412-466 *)
join_checks(games, genres) ==
    LET merged == merge_genres(games, genres)
        duplicate_count == Len(merged) - Len(games)
        missing == Cardinality(games_without_genres(merged))
        result == join_games_genres(games, genres)
    IN  << Check("No duplicates introduced", duplicate_count = 0,
                 IF duplicate_count = 0 THEN <<>> ELSE <<duplicate_count>>),
           Check("All games have genre vectors", missing = 0, <<missing>>),
           Check("Games after merge", Len(result) > 0, <<Len(result)>>),
           Check("All games have at least 1 genre",
                 \A i \in 1..Len(result) : SumSeq(result[i].genres) > 0,
                 <<>>),
           Check("No NULL values in genre columns", TRUE, <<>>) >>

(* lines 429-430, 446-448 *)
join_warnings(games, genres) ==
    LET merged == merge_genres(games, genres)
        missing == Cardinality(games_without_genres(merged))
        zero == Cardinality(games_with_zero_genres(with_genres(merged)))
    IN  When(missing > 0,
             Warning("games have no genre vectors", <<missing>>))
        \o When(zero > 0,
                Warning("games have genre vectors but all zeros", <<zero>>))

----------------------------------------------------------------------------
(* The two passes: the checks of expand_to_company_rows and of            *)
(* compute_company_shares                                                 *)

(* The frame as one pass reads it: ids_col is the pass's id list *)
select_ids(df, ids_col) ==
    [i \in 1..Len(df) |->
        [game_id      |-> df[i].game_id,
         release_year |-> df[i].release_year,
         ids          |-> df[i][ids_col],
         genres       |-> df[i].genres]]

(* lines 515-551; label_lower is company_label.lower() *)
expand_checks(df, company_label, label_lower) ==
    LET company_rows == explode(games_with_company(df))
        dups == dup_count(company_rows)
    IN  << Check(company_label \o " rows created", Len(company_rows) > 0,
                 <<Len(company_rows)>>),
           Check("No NULL " \o label_lower \o " IDs", TRUE, <<>>),
           Check("No NULL years", TRUE, <<>>),
           Check("Duplicates handled", TRUE,
                 IF dups > 0 THEN <<dups>> ELSE <<>>) >>

(* The years the spot check looks for, and the number of nonzero shares   *)
(* it wants                                                               *)
SpotCheckYear == 2022
SpotCheckGenres == 5

(* the rows of company c in a share frame, by ascending year *)
company_over_time(shares, c) ==
    StableSort(Take(shares, {p \in 1..Len(shares) : shares[p].company_id = c}),
               PanelKeyLess)

(* all(game_counts[i] <= game_counts[i+1] ...) on the rows of one company *)
is_monotonic(over_time) ==
    \A i \in 1..(Len(over_time) - 1) :
        over_time[i].num_games[1] <= over_time[i + 1].num_games[1]

(* company_shares[company_id_col].unique(): ids in order of appearance *)
unique_ids(shares) ==
    LET first == {p \in 1..Len(shares) :
                     ~\E q \in 1..(p - 1) :
                         shares[q].company_id = shares[p].company_id}
        ix == AscendingSeq(first)
    IN  [k \in 1..Len(ix) |-> shares[ix[k]].company_id]

(* lines 743-762: the row the spot check samples: the first row of the    *)
(* target year with the most shares above 1e-9                            *)
nonzero_count(r) ==
    Cardinality({k \in DOMAIN r.shares :
                    notna(r.shares[k]) /\ r.shares[k][1][1] > 0})

most_diverse(shares) ==
    LET years == {shares[p].Year : p \in 1..Len(shares)}
        target_year == IF SpotCheckYear \in years THEN SpotCheckYear
                       ELSE Max(years)
        year_target == Take(shares, {p \in 1..Len(shares) :
                                        shares[p].Year = target_year})
        best == Max({nonzero_count(year_target[p]) : p \in 1..Len(year_target)})
    IN  year_target[Min({p \in 1..Len(year_target) :
                            nonzero_count(year_target[p]) = best})]

(* lines 765-768 *)
source_games(rows, sample) ==
    Take(rows, {i \in 1..Len(rows) :
                   /\ rows[i].company_id = sample.company_id
                   /\ rows[i].release_year <= sample.Year})

(* lines 780-821: the manual recomputation of the first share of          *)
(* category 1 for the sampled company-year, when it is made               *)
spot_check_made(rows, shares, cols) ==
    /\ Len(shares) > 0
    /\ nonzero_count(most_diverse(shares)) >= SpotCheckGenres
    /\ Len(source_games(rows, most_diverse(shares))) > 0
    /\ 1 \in DOMAIN build_category_mappings(cols)
    /\ \E i \in 1..Len(source_games(rows, most_diverse(shares))) :
          category_has(source_games(rows, most_diverse(shares))[i],
                       build_category_mappings(cols)[1]) = 1

spot_check_passes(rows, shares, cols) ==
    LET sample == most_diverse(shares)
        cat_cols == build_category_mappings(cols)[1]
        with_cat == Take(source_games(rows, sample),
                        {i \in 1..Len(source_games(rows, sample)) :
                            category_has(source_games(rows, sample)[i],
                                         cat_cols) = 1})
        manual_sum == SumSeq([i \in 1..Len(with_cat) |->
                                 with_cat[i].genres[cat_cols[1]]])
    IN  sample.shares[cat_cols[1]] = Val(Quotient(manual_sum, Len(with_cat)))

(* lines 679-690, 713-735, 817-821, 852-894: the checks                   *)
(* compute_company_shares records before its summary statistics           *)
compute_checks(rows, lookup, cols, company_type) ==
    LET shares == compute_company_shares(rows, lookup, cols)
        n == Len(shares)
        ids == unique_ids(shares)
        violations == {c \in Range(ids) :
                          ~is_monotonic(company_over_time(shares, c))}
        cells == {<<p, k>> \in (1..n) \X (1..Len(cols)) :
                     notna(shares[p].shares[k])}
        in_range ==
            /\ cells # {}
            /\ \A pk \in cells :
                  LET v == shares[pk[1]].shares[pk[2]][1]
                  IN  0 <= v[1] /\ v[1] <= v[2]
        null_shares == n * Len(cols) - Cardinality(cells)
        sample_companies ==
            [k \in 1..(IF Len(ids) < 3 THEN Len(ids) ELSE 3) |-> ids[k]]
        evolution_check_passed ==
            Cardinality({k \in 1..Len(sample_companies) :
                LET over_time == company_over_time(shares, sample_companies[k])
                IN  Len(over_time) > 1 /\ is_monotonic(over_time)})
        invalid_count ==
            Cardinality({c \in Range(ids) :
                LET over_time == company_over_time(shares, c)
                IN  Len(over_time) >
                        over_time[Len(over_time)].Year - over_time[1].Year + 1})
    IN  << Check("Game counts are monotonic (never decrease)",
                 violations = {},
                 IF violations = {} THEN <<>>
                 ELSE <<Cardinality(violations)>>),
           Check(company_type \o "-year rows created", n > 0, <<n>>),
           Check("Genre shares in [0,1] range", in_range, <<>>),
           Check("No NULL genre shares", null_shares = 0,
                 IF null_shares = 0 THEN <<>> ELSE <<null_shares>>) >>
        \o When(spot_check_made(rows, shares, cols),
                Check("Manual spot check (cumulative within-category share)",
                      spot_check_passes(rows, shares, cols), <<>>))
        \o << Check("Share evolution is monotonic (sample check)",
                    evolution_check_passed = Len(sample_companies),
                    <<evolution_check_passed, Len(sample_companies)>>),
              Check("Year span statistics computed", TRUE, <<>>),
              Check("Rows per company are valid (1 to year_span)",
                    invalid_count = 0,
                    IF invalid_count = 0 THEN <<>> ELSE <<invalid_count>>) >>

(* line 825: the sampled company-year is not taken for the spot check *)
compute_warnings(rows, lookup, cols) ==
    LET shares == compute_company_shares(rows, lookup, cols)
    IN  When(/\ Len(shares) > 0
             /\ \/ nonzero_count(most_diverse(shares)) < SpotCheckGenres
                \/ Len(source_games(rows, most_diverse(shares))) = 0,
             Warning("Selected company-year may not be ideal test case",
                     <<nonzero_count(most_diverse(shares)),
                       Len(source_games(rows, most_diverse(shares)))>>))

----------------------------------------------------------------------------
(* Output: the checks of balance_company_panel and create_output_files    *)

(* lines 653-664, 707-709: the columns of a share frame; a share column   *)
(* is f"{col}_share", kept as the list name.split('_') produces           *)
file_columns(id_col, name_col, cols) ==
    << id_col, name_col, <<"Year">>, <<"num", "games">> >>
        \o [k \in 1..Len(cols) |-> cols[k] \o <<"share">>]

(* c.endswith('_share') *)
endswith_share(column) ==
    Len(column) > 1 /\ column[Len(column)] = "share"

(* c.startswith('category_') *)
startswith_category(column) ==
    Len(column) > 1 /\ column[1] = "category"

(* lines 968-978 *)
balance_checks(shares) ==
    LET added_rows == Len(balance_company_panel(shares)) - Len(shares)
    IN  << Check("Panel balancing completed", added_rows >= 0,
                 <<added_rows>>) >>

(* lines 1152-1172: the developer sampled by the spot check and its rows  *)
sample_dev_data(out) ==
    LET multi == {out[i].company_id : i \in
                     {p \in 1..Len(out) :
                         \E q \in 1..Len(out) :
                             q # p /\ out[q].company_id = out[p].company_id}}
    IN  company_over_time(out, Min(multi))

(* lines 1026-1069, 1093-1145 for one file *)
file_checks(out, company_label, columns) ==
    LET share_cols == Take(columns, {k \in 1..Len(columns) :
                                        endswith_share(columns[k])})
    IN  << Check(company_label \o " file created", TRUE, <<Len(out)>>),
           Check(company_label \o " file has correct columns",
                 Len(columns) = 4 + ExpectedGenreCols,
                 <<Len(columns), 4 + ExpectedGenreCols>>),
           Check(company_label \o " file columns use NEW SCHEMA",
                 \A k \in 1..Len(share_cols) :
                     startswith_category(share_cols[k]),
                 <<Len(share_cols)>>) >>

nan_checks(out, company_label) ==
    LET nan_names == Cardinality({i \in 1..Len(out) : isna(out[i].name)})
    IN  << Check(company_label \o " ID column has no NaNs", TRUE, <<0>>),
           Check(company_label \o " Year column has no NaNs", TRUE, <<0>>),
           Check(company_label \o " Name column has no NaNs",
                 nan_names = 0, <<nan_names>>) >>

(* the checks create_output_files records, in order, up to the point      *)
(* where the spot check raises or the function returns                    *)
output_checks(dev_shares, pub_shares, cols) ==
    LET developer_out == sort_output(balance_company_panel(dev_shares))
        publisher_out == sort_output(balance_company_panel(pub_shares))
    IN  balance_checks(dev_shares)
        \o balance_checks(pub_shares)
        \o file_checks(developer_out, "Developer",
                       file_columns(<<"developer", "id">>, <<"Developer">>, cols))
        \o file_checks(publisher_out, "Publisher",
                       file_columns(<<"publisher", "id">>, <<"Publisher">>, cols))
        \o << Check("Output files created successfully", TRUE, <<>>) >>
        \o nan_checks(developer_out, "Developer")
        \o nan_checks(publisher_out, "Publisher")
        \o When(Len(developer_out) > 0 /\ ~spot_check_raises(developer_out),
                Check("Sample developer portfolio is cumulative (game counts increase)",
                      is_monotonic(sample_dev_data(developer_out)), <<>>))

----------------------------------------------------------------------------
(* Diversity Analyzer: genre_diversity_analysis.calculate_diversity_metrics *)

YEAR_MIN == 1990
YEAR_MAX == 2023

(* col.startswith("genre_") *)
startswith_genre(column) ==
    Len(column) > 1 /\ column[1] = "genre"

(* the share columns the analyzer selects, as positions in the shares     *)
(* vector of a row of the file                                            *)
diversity_genre_cols(cols) ==
    {k \in 1..Len(cols) :
        LET column == cols[k] \o <<"share">>
        IN  startswith_genre(column) /\ endswith_share(column)}

(* one record per row whose selected shares sum to more than 0 and whose  *)
(* year lies in [YEAR_MIN, YEAR_MAX]; num_genres counts the nonzero       *)
(* normalized shares                                                      *)
calculate_diversity_metrics(df, cols) ==
    LET selected == diversity_genre_cols(cols)
        positive(r) == {k \in selected :
                           notna(r.shares[k]) /\ r.shares[k][1][1] > 0}
        emitted == {i \in 1..Len(df) :
                       /\ positive(df[i]) # {}
                       /\ YEAR_MIN <= df[i].Year
                       /\ df[i].Year <= YEAR_MAX}
        ix == AscendingSeq(emitted)
    IN  [p \in 1..Len(ix) |->
            [company_id |-> df[ix[p]].company_id,
             name       |-> df[ix[p]].name,
             Year       |-> df[ix[p]].Year,
             num_genres |-> Cardinality(positive(df[ix[p]]))]]

----------------------------------------------------------------------------
(* A whole run of main(): inputs *)

MaxMainGames == 2

(* The years of a game's release dates: none, one before YEAR_MIN, one    *)
(* with a date past MaxValidYear, two dates in descending order           *)
MainDates == { <<>>, <<1989>>, <<1990, 2027>>, <<1992, 1991>> }

(* Raw id lists of the database; 9 is in no lookup table, 2 is a          *)
(* developer and not a publisher                                          *)
MainDevelopers == { <<1>>, <<1, 2>>, <<2, 9>> }
MainPublishers == { <<1>>, <<2>> }

(* The game's row of the genre vectors file: none, all zeros, two         *)
(* indicators set                                                         *)
MainGenreRows == { NaN, Val(<<0, 0, 0>>), Val(<<1, 0, 1>>) }

MainGames ==
    [release_dates : MainDates, developers : MainDevelopers,
     publishers : MainPublishers, genre_row : MainGenreRows]

Database(f) ==
    [i \in DOMAIN f |->
        [game_id |-> i, developers |-> f[i].developers,
         publishers |-> f[i].publishers,
         release_dates |-> f[i].release_dates]]

GenreFile(f) ==
    LET ix == AscendingSeq({i \in DOMAIN f : notna(f[i].genre_row)})
    IN  [p \in 1..Len(ix) |->
            [game_id |-> ix[p], genres |-> f[ix[p]].genre_row[1]]]

PublisherLookup == << [id |-> 1, name |-> Val("Gamma")] >>

InitMain ==
    /\ pc = "verify_file_exists"
    /\ UnitIdle
    /\ \E n \in 0..MaxMainGames : \E f \in [1..n -> MainGames] :
          /\ db_rows = Database(f)
          /\ genres_df = GenreFile(f)
          /\ \/ missing_files = {}
             \/ n < MaxMainGames /\ missing_files = {"Genre vectors"}
    /\ developers_df = NamedLookup
    /\ publishers_df = PublisherLookup
    /\ games_df = <<>>
    /\ games_genres_df = <<>>
    /\ dev_rows_df = <<>>
    /\ pub_rows_df = <<>>
    /\ dev_shares_df = <<>>
    /\ pub_shares_df = <<>>
    /\ dev_balanced = <<>>
    /\ pub_balanced = <<>>
    /\ dev_out = <<>>
    /\ pub_out = <<>>
    /\ checks = <<>>
    /\ warnings = <<>>
    /\ audit_report = NaN
    /\ error = NaN
    /\ exit_status = NaN
    /\ developer_diversity = <<>>

----------------------------------------------------------------------------
(* A whole run of main(): one action per call of the try block.  An       *)
(* exception leaves the block for the except clause of line 1277.         *)

(* main, lines 1195-1200; utils.verify_file_exists raises                 *)
(* FileNotFoundError for the first missing file                           *)
VerifyFileExists ==
    /\ pc = "verify_file_exists"
    /\ IF missing_files # {}
       THEN error' = Val("FileNotFoundError") /\ pc' = "except"
       ELSE error' = error /\ pc' = "extract_games_from_db"
    /\ UNCHANGED <<games_genres_df, developers_df, dev_rows_df,
                   dev_shares_df, dev_balanced, dev_out>>
    /\ UNCHANGED <<missing_files, db_rows, games_df, publishers_df,
                   genres_df, pub_rows_df, pub_shares_df, pub_balanced,
                   pub_out, checks, warnings, audit_report, exit_status,
                   developer_diversity>>
    /\ UNCHANGED unit_vars

(* main, line 1203 *)
ExtractGamesFromDb ==
    /\ pc = "extract_games_from_db"
    /\ checks' = checks \o extract_checks(db_rows)
    /\ IF extract_raises(db_rows)
       THEN /\ error' = Val("KeyError")
            /\ pc' = "except"
            /\ UNCHANGED games_df
       ELSE /\ error' = error
            /\ pc' = "validate_ids"
            /\ games_df' = extract_games_from_db(db_rows)
    /\ UNCHANGED <<games_genres_df, developers_df, dev_rows_df,
                   dev_shares_df, dev_balanced, dev_out>>
    /\ UNCHANGED <<missing_files, db_rows, publishers_df,
                   genres_df, pub_rows_df, pub_shares_df, pub_balanced,
                   pub_out, warnings, audit_report, exit_status,
                   developer_diversity>>
    /\ UNCHANGED unit_vars

(* main, lines 1206-1208 *)
ValidateIds ==
    /\ pc = "validate_ids"
    /\ games_df' = validate_ids(games_df, developers_df, publishers_df)
    /\ checks' = checks \o validate_checks(games_df, developers_df,
                                            publishers_df)
    /\ warnings' = warnings \o validate_warnings(games_df, developers_df,
                                                  publishers_df)
    /\ pc' = "load_genre_vectors"
    /\ UNCHANGED <<games_genres_df, developers_df, dev_rows_df,
                   dev_shares_df, dev_balanced, dev_out>>
    /\ UNCHANGED <<missing_files, db_rows, publishers_df,
                   genres_df, pub_rows_df, pub_shares_df, pub_balanced,
                   pub_out, audit_report, error, exit_status,
                   developer_diversity>>
    /\ UNCHANGED unit_vars

(* main, line 1211 *)
LoadGenreVectors ==
    /\ pc = "load_genre_vectors"
    /\ checks' = checks \o load_checks(genres_df, genre_cols)
    /\ IF load_raises(genres_df)
       THEN error' = Val("ValueError") /\ pc' = "except"
       ELSE error' = error /\ pc' = "join_games_genres"
    /\ UNCHANGED <<games_genres_df, developers_df, dev_rows_df,
                   dev_shares_df, dev_balanced, dev_out>>
    /\ UNCHANGED <<missing_files, db_rows, games_df, publishers_df,
                   genres_df, pub_rows_df, pub_shares_df, pub_balanced,
                   pub_out, warnings, audit_report, exit_status,
                   developer_diversity>>
    /\ UNCHANGED unit_vars

(* main, line 1216 *)
JoinGamesGenres ==
    /\ pc = "join_games_genres"
    /\ games_genres_df' = join_games_genres(games_df, genres_df)
    /\ checks' = checks \o join_checks(games_df, genres_df)
    /\ warnings' = warnings \o join_warnings(games_df, genres_df)
    /\ pc' = "expand_developer"
    /\ UNCHANGED <<developers_df, dev_rows_df,
                   dev_shares_df, dev_balanced, dev_out>>
    /\ UNCHANGED <<missing_files, db_rows, games_df, publishers_df,
                   genres_df, pub_rows_df, pub_shares_df, pub_balanced,
                   pub_out, audit_report, error, exit_status,
                   developer_diversity>>
    /\ UNCHANGED unit_vars

(* main, lines 1219-1226 *)
ExpandDeveloper ==
    /\ pc = "expand_developer"
    /\ dev_rows_df' =
           expand_to_company_rows(select_ids(games_genres_df, "developer_ids"))
    /\ checks' = checks \o
           expand_checks(select_ids(games_genres_df, "developer_ids"),
                         "Developer", "developer")
    /\ pc' = "expand_publisher"
    /\ UNCHANGED <<games_genres_df, developers_df,
                   dev_shares_df, dev_balanced, dev_out>>
    /\ UNCHANGED <<missing_files, db_rows, games_df, publishers_df,
                   genres_df, pub_rows_df, pub_shares_df, pub_balanced,
                   pub_out, warnings, audit_report, error, exit_status,
                   developer_diversity>>
    /\ UNCHANGED unit_vars

(* main, lines 1229-1236 *)
ExpandPublisher ==
    /\ pc = "expand_publisher"
    /\ pub_rows_df' =
           expand_to_company_rows(select_ids(games_genres_df, "publisher_ids"))
    /\ checks' = checks \o
           expand_checks(select_ids(games_genres_df, "publisher_ids"),
                         "Publisher", "publisher")
    /\ pc' = "compute_developer"
    /\ UNCHANGED <<games_genres_df, developers_df, dev_rows_df,
                   dev_shares_df, dev_balanced, dev_out>>
    /\ UNCHANGED <<missing_files, db_rows, games_df, publishers_df,
                   genres_df, pub_shares_df, pub_balanced,
                   pub_out, warnings, audit_report, error, exit_status,
                   developer_diversity>>
    /\ UNCHANGED unit_vars

(* main, lines 1239-1247 *)
ComputeDeveloper ==
    /\ pc = "compute_developer"
    /\ checks' = checks \o
           compute_checks(dev_rows_df, developers_df, genre_cols, "Developer")
    /\ warnings' = warnings \o
           compute_warnings(dev_rows_df, developers_df, genre_cols)
    /\ IF compute_raises(dev_rows_df, developers_df, genre_cols)
       THEN /\ error' = Val("ZeroDivisionError")
            /\ pc' = "except"
            /\ UNCHANGED dev_shares_df
       ELSE /\ error' = error
            /\ pc' = "compute_publisher"
            /\ dev_shares_df' =
                   compute_company_shares(dev_rows_df, developers_df, genre_cols)
    /\ UNCHANGED <<games_genres_df, developers_df, dev_rows_df,
                   dev_balanced, dev_out>>
    /\ UNCHANGED <<missing_files, db_rows, games_df, publishers_df,
                   genres_df, pub_rows_df, pub_shares_df, pub_balanced,
                   pub_out, audit_report, exit_status,
                   developer_diversity>>
    /\ UNCHANGED unit_vars

(* main, lines 1250-1258 *)
ComputePublisher ==
    /\ pc = "compute_publisher"
    /\ checks' = checks \o
           compute_checks(pub_rows_df, publishers_df, genre_cols, "Publisher")
    /\ warnings' = warnings \o
           compute_warnings(pub_rows_df, publishers_df, genre_cols)
    /\ IF compute_raises(pub_rows_df, publishers_df, genre_cols)
       THEN /\ error' = Val("ZeroDivisionError")
            /\ pc' = "except"
            /\ UNCHANGED pub_shares_df
       ELSE /\ error' = error
            /\ pc' = "output_files"
            /\ pub_shares_df' =
                   compute_company_shares(pub_rows_df, publishers_df, genre_cols)
    /\ UNCHANGED <<games_genres_df, developers_df, dev_rows_df,
                   dev_shares_df, dev_balanced, dev_out>>
    /\ UNCHANGED <<missing_files, db_rows, games_df, publishers_df,
                   genres_df, pub_rows_df, pub_balanced,
                   pub_out, audit_report, exit_status,
                   developer_diversity>>
    /\ UNCHANGED unit_vars

(* main, line 1261: both panels are balanced, then both files are         *)
(* written, then the checks run; the spot check of line 1154 may raise    *)
WriteOutputFiles ==
    /\ pc = "output_files"
    /\ dev_balanced' = balance_company_panel(dev_shares_df)
    /\ pub_balanced' = balance_company_panel(pub_shares_df)
    /\ dev_out' = sort_output(dev_balanced')
    /\ pub_out' = sort_output(pub_balanced')
    /\ checks' = checks \o
           output_checks(dev_shares_df, pub_shares_df, genre_cols)
    /\ IF spot_check_raises(dev_out')
       THEN error' = Val("IndexError") /\ pc' = "except"
       ELSE error' = error /\ pc' = "log_summary"
    /\ UNCHANGED <<games_genres_df, developers_df, dev_rows_df,
                   dev_shares_df>>
    /\ UNCHANGED <<missing_files, db_rows, games_df, publishers_df,
                   genres_df, pub_rows_df, pub_shares_df,
                   warnings, audit_report, exit_status,
                   developer_diversity>>
    /\ UNCHANGED unit_vars

(* main, lines 1264-1275: the summary is logged and the audit report,     *)
(* built from the tracker, is written                                     *)
WriteAuditReport ==
    /\ pc = "log_summary"
    /\ audit_report' = Val([checks   |-> checks,
                            warnings |-> warnings,
                            errors   |-> errors_of(checks)])
    /\ pc' = "return"
    /\ UNCHANGED <<games_genres_df, developers_df, dev_rows_df,
                   dev_shares_df, dev_balanced, dev_out>>
    /\ UNCHANGED <<missing_files, db_rows, games_df, publishers_df,
                   genres_df, pub_rows_df, pub_shares_df, pub_balanced,
                   pub_out, checks, warnings, error, exit_status,
                   developer_diversity>>
    /\ UNCHANGED unit_vars

(* main, lines 1277-1278: the exception is logged and main returns *)
HandleException ==
    /\ pc = "except"
    /\ pc' = "return"
    /\ UNCHANGED <<games_genres_df, developers_df, dev_rows_df,
                   dev_shares_df, dev_balanced, dev_out>>
    /\ UNCHANGED main_vars
    /\ UNCHANGED unit_vars

(* lines 1282-1283: main() has returned, the interpreter exits *)
Exit ==
    /\ pc = "return"
    /\ exit_status' = Val(0)
    /\ pc' = "exited"
    /\ UNCHANGED <<games_genres_df, developers_df, dev_rows_df,
                   dev_shares_df, dev_balanced, dev_out>>
    /\ UNCHANGED <<missing_files, db_rows, games_df, publishers_df,
                   genres_df, pub_rows_df, pub_shares_df, pub_balanced,
                   pub_out, checks, warnings, audit_report, error,
                   developer_diversity>>
    /\ UNCHANGED unit_vars

(* genre_diversity_analysis, lines 300-301 and 319: the analysis reads    *)
(* the developer file the run wrote                                       *)
CalculateDiversityMetrics ==
    /\ pc = "exited"
    /\ Len(dev_out) > 0
    /\ developer_diversity' = calculate_diversity_metrics(dev_out, genre_cols)
    /\ pc' = "analyzed"
    /\ UNCHANGED <<games_genres_df, developers_df, dev_rows_df,
                   dev_shares_df, dev_balanced, dev_out>>
    /\ UNCHANGED <<missing_files, db_rows, games_df, publishers_df,
                   genres_df, pub_rows_df, pub_shares_df, pub_balanced,
                   pub_out, checks, warnings, audit_report, error,
                   exit_status>>
    /\ UNCHANGED unit_vars

NextMain ==
    \/ VerifyFileExists
    \/ ExtractGamesFromDb
    \/ ValidateIds
    \/ LoadGenreVectors
    \/ JoinGamesGenres
    \/ ExpandDeveloper
    \/ ExpandPublisher
    \/ ComputeDeveloper
    \/ ComputePublisher
    \/ WriteOutputFiles
    \/ WriteAuditReport
    \/ HandleException
    \/ Exit
    \/ CalculateDiversityMetrics

SpecMain == InitMain /\ [][NextMain]_vars

----------------------------------------------------------------------------
(* Claims about the whole run *)

(* validate_ids has returned in this run *)
Validated ==
    \E k \in 1..Len(checks) : checks[k].check = "Data cleaning successful"

lookup_ids(lookup) == {lookup[q].id : q \in 1..Len(lookup)}

panel_ids(frame) == {frame[p].company_id : p \in 1..Len(frame)}

(* C13: after validate_ids no developer or publisher list holds an id     *)
(* that is absent from its lookup table, every id of the extracted list   *)
(* that is in the lookup table is still in the list, and no absent id is  *)
(* a company of the role's rows, shares, balanced panel or written file   *)
C13_ValidatedIdsAreLookupIds ==
    Validated =>
        LET raw == extract_games_from_db(db_rows)
        IN  /\ Len(games_df) = Len(raw)
            /\ \A i \in 1..Len(games_df) :
                  /\ Range(games_df[i].developer_ids) =
                         Range(raw[i].developer_ids) \cap lookup_ids(developers_df)
                  /\ Range(games_df[i].publisher_ids) =
                         Range(raw[i].publisher_ids) \cap lookup_ids(publishers_df)
            /\ \A frame \in {dev_rows_df, dev_shares_df, dev_balanced, dev_out} :
                  panel_ids(frame) \subseteq lookup_ids(developers_df)
            /\ \A frame \in {pub_rows_df, pub_shares_df, pub_balanced, pub_out} :
                  panel_ids(frame) \subseteq lookup_ids(publishers_df)

(* A run that wrote both files from a database with a developer id and a  *)
(* publisher id that are in no lookup table, next to ids that are         *)
C13_Witness ==
    /\ Validated
    /\ pc = "exited"
    /\ Len(dev_out) > 0
    /\ Len(pub_out) > 0
    /\ \E i \in 1..Len(db_rows) :
          /\ 9 \in Range(db_rows[i].developers)
          /\ games_df[i].developer_ids = << 2 >>
    /\ \E i \in 1..Len(db_rows) :
          /\ db_rows[i].publishers = << 2 >>
          /\ games_df[i].publisher_ids = << >>

(* join_games_genres has returned in this run *)
Joined ==
    \E k \in 1..Len(checks) : checks[k].check = "Games after merge"

(* the indicator rows of the genre file that match a game *)
IndicatorRows(game_id) ==
    {q \in 1..Len(genres_df) : genres_df[q].game_id = game_id}

(* the games of the validated catalog: without an indicator row, with     *)
(* indicator rows that are all zeros                                      *)
UnmatchedGames ==
    {i \in 1..Len(games_df) : IndicatorRows(games_df[i].game_id) = {}}

AllZeroGames ==
    {i \in 1..Len(games_df) :
        /\ IndicatorRows(games_df[i].game_id) # {}
        /\ \A q \in IndicatorRows(games_df[i].game_id) :
              \A k \in DOMAIN genres_df[q].genres : genres_df[q].genres[k] = 0}

(* C14: after join_games_genres every retained game has a matching        *)
(* indicator row and at least one indicator equal to 1; the retained      *)
(* games are the games of the catalog that are neither unmatched nor all  *)
(* zeros, and the size of each dropped group is reported                  *)
C14_RetainedGamesHaveGenres ==
    Joined =>
        /\ \A r \in 1..Len(games_genres_df) :
              /\ \E q \in IndicatorRows(games_genres_df[r].game_id) :
                    genres_df[q].genres = games_genres_df[r].genres
              /\ \E k \in DOMAIN games_genres_df[r].genres :
                    games_genres_df[r].genres[k] = 1
        /\ {games_genres_df[r].game_id : r \in 1..Len(games_genres_df)} =
               {games_df[i].game_id :
                   i \in (1..Len(games_df)) \ (UnmatchedGames \cup AllZeroGames)}
        /\ \E k \in 1..Len(checks) :
              /\ checks[k].check = "All games have genre vectors"
              /\ checks[k].details = << Cardinality(UnmatchedGames) >>
        /\ UnmatchedGames # {} =>
              \E w \in 1..Len(warnings) :
                  warnings[w] = Warning("games have no genre vectors",
                                        << Cardinality(UnmatchedGames) >>)
        /\ AllZeroGames # {} =>
              \E w \in 1..Len(warnings) :
                  warnings[w] = Warning("games have genre vectors but all zeros",
                                        << Cardinality(AllZeroGames) >>)

(* A run that wrote the developer file from a catalog of two games, one   *)
(* of them dropped for its all-zero indicator row                         *)
C14_Witness ==
    /\ Joined
    /\ pc = "exited"
    /\ Len(games_df) = 2
    /\ Cardinality(AllZeroGames) = 1
    /\ Len(games_genres_df) = 1
    /\ Len(dev_out) > 0

(* main, lines 1203-1261, as a function of its inputs: the panel file of  *)
(* one role that a run over the database rows db writes, NaN when an      *)
(* exception leaves the try block before create_output_files writes it.   *)
(* The developer pass runs before the publisher pass, and both before     *)
(* the files are written.                                                 *)
panel_file(db, genres, devs, pubs, role) ==
    IF extract_raises(db) \/ load_raises(genres) THEN NaN
    ELSE LET games == validate_ids(extract_games_from_db(db), devs, pubs)
             joined == join_games_genres(games, genres)
             dev_rows ==
                 expand_to_company_rows(select_ids(joined, "developer_ids"))
             pub_rows ==
                 expand_to_company_rows(select_ids(joined, "publisher_ids"))
         IN  IF \/ compute_raises(dev_rows, devs, genre_cols)
                \/ compute_raises(pub_rows, pubs, genre_cols)
             THEN NaN
             ELSE IF role = "developer"
                  THEN Val(sort_output(balance_company_panel(
                           compute_company_shares(dev_rows, devs, genre_cols))))
                  ELSE Val(sort_output(balance_company_panel(
                           compute_company_shares(pub_rows, pubs, genre_cols))))

(* the file of a role as this run left it *)
written_file(out) == IF Len(out) > 0 THEN Val(out) ELSE NaN

(* the database with the id lists of one column replaced *)
with_ids(db, column, lists) ==
    [i \in 1..Len(db) |-> [db[i] EXCEPT ![column] = lists[i]]]

RunEnded == pc = "exited" /\ missing_files = {}

(* The files a finished run left are the files panel_file computes from   *)
(* the run's inputs                                                       *)
RunWritesPanelFiles ==
    RunEnded =>
        /\ written_file(dev_out) =
               panel_file(db_rows, genres_df, developers_df, publishers_df,
                          "developer")
        /\ written_file(pub_out) =
               panel_file(db_rows, genres_df, developers_df, publishers_df,
                          "publisher")

(* C15: the developer panel file of a run is the one the pipeline writes  *)
(* for every catalog that differs from the run's only in the games'       *)
(* publisher_ids, and the publisher panel file is the one it writes for   *)
(* every catalog that differs only in the games' developer_ids            *)
C15_PanelsDoNotInteract ==
    RunEnded =>
        /\ \A other \in [1..Len(db_rows) -> MainPublishers] :
              panel_file(with_ids(db_rows, "publishers", other), genres_df,
                         developers_df, publishers_df, "developer")
                  = written_file(dev_out)
        /\ \A other \in [1..Len(db_rows) -> MainDevelopers] :
              panel_file(with_ids(db_rows, "developers", other), genres_df,
                         developers_df, publishers_df, "publisher")
                  = written_file(pub_out)

(* C15, restricted to the catalogs for which the pipeline writes both     *)
(* files: there the file of a role is the same for every assignment of    *)
(* the other role's ids                                                   *)
C15_WrittenPanelsAgree ==
    RunEnded /\ Len(dev_out) > 0 =>
        /\ \A other \in [1..Len(db_rows) -> MainPublishers] :
              LET file == panel_file(with_ids(db_rows, "publishers", other),
                                     genres_df, developers_df, publishers_df,
                                     "developer")
              IN  notna(file) => file = Val(dev_out)
        /\ \A other \in [1..Len(db_rows) -> MainDevelopers] :
              LET file == panel_file(with_ids(db_rows, "developers", other),
                                     genres_df, developers_df, publishers_df,
                                     "publisher")
              IN  notna(file) => file = Val(pub_out)

----------------------------------------------------------------------------
(* Company independence, on the developer pass *)

(* the records of company c in a frame, in the frame's order *)
records_of(frame, c) ==
    Take(frame, {p \in 1..Len(frame) : frame[p].company_id = c})

(* the engine output for the input that holds the rows of company c only *)
shares_alone(c) ==
    compute_company_shares(records_of(dev_rows_df, c), developers_df,
                           genre_cols)

(* C16: the records of a company (name, num_games and every share) in     *)
(* the engine output and in the balanced panel are the records the        *)
(* engine and the balancer produce from the rows of that company alone    *)
C16_OwnRowsOnly ==
    FileWritten =>
        \A c \in panel_ids(dev_rows_df) :
            /\ records_of(dev_shares_df, c) = shares_alone(c)
            /\ records_of(dev_balanced, c) =
                   balance_company_panel(shares_alone(c))

(* C16, the part the code keeps: the engine output, and num_games and     *)
(* the shares of the balanced panel                                       *)
C16_OwnRowsOnlyButName ==
    FileWritten =>
        \A c \in panel_ids(dev_rows_df) :
            LET alone == balance_company_panel(shares_alone(c))
                mine == records_of(dev_balanced, c)
            IN  /\ records_of(dev_shares_df, c) = shares_alone(c)
                /\ Len(mine) = Len(alone)
                /\ \A p \in 1..Len(mine) :
                      /\ mine[p].Year = alone[p].Year
                      /\ mine[p].num_games = alone[p].num_games
                      /\ mine[p].shares = alone[p].shares

----------------------------------------------------------------------------
(* Error handling of the run *)

RunExited == pc \in {"exited", "analyzed"}

(* C17: a run that a raised exception aborted exits with a non-zero       *)
(* status, every other run exits with status zero                         *)
C17_ExitStatusTellsFatalError ==
    RunExited => (notna(error) <=> exit_status # Val(0))

(* C17, the part the code keeps: a run that no exception aborted exits    *)
(* with status zero, failed checks or not                                 *)
C17_ZeroWithoutFatalError ==
    RunExited /\ isna(error) =>
        /\ exit_status = Val(0)
        /\ notna(audit_report)

BothFilesWritten == Len(dev_out) > 0 /\ Len(pub_out) > 0

(* C18: a run in which a check was recorded with passed = false still     *)
(* goes through every stage: when it has ended, both files are written    *)
(* and the audit report, holding the failed checks, is emitted            *)
C18_FailedCheckNeverStopsRun ==
    RunExited /\ Len(errors_of(checks)) > 0 =>
        /\ BothFilesWritten
        /\ notna(audit_report)
        /\ audit_report[1].errors = errors_of(checks)

(* C18, the part the code keeps: a run that no exception aborted wrote    *)
(* both files and reports every failed check                              *)
C18_CompletedRunReportsFailures ==
    RunExited /\ isna(error) =>
        /\ BothFilesWritten
        /\ notna(audit_report)
        /\ audit_report[1].checks = checks
        /\ audit_report[1].errors = errors_of(checks)

----------------------------------------------------------------------------
(* The written files *)

(* rows in ascending order of (Year, company_id) *)
SortedByYearCompany(out) ==
    \A i, j \in 1..Len(out) :
        i < j => \/ out[i].Year < out[j].Year
                 \/ /\ out[i].Year = out[j].Year
                    /\ out[i].company_id <= out[j].company_id

(* one row of the file for every (company, year) of the balanced panel,   *)
(* the panel's record, and no other row                                   *)
OneRowPerPanelRow(out, balanced) ==
    /\ Len(out) = Len(balanced)
    /\ \A b \in 1..Len(balanced) :
          Cardinality({i \in 1..Len(out) :
              /\ out[i].company_id = balanced[b].company_id
              /\ out[i].Year = balanced[b].Year}) = 1
    /\ \A i \in 1..Len(out) : \E b \in 1..Len(balanced) : out[i] = balanced[b]

(* C19: each written file, developer and publisher, has its rows in       *)
(* ascending order of (Year, company_id), one row per (company, year) of  *)
(* the balanced panel                                                     *)
C19_FilesSortedByYearCompany ==
    BothFilesWritten =>
        /\ SortedByYearCompany(dev_out)
        /\ OneRowPerPanelRow(dev_out, dev_balanced)
        /\ SortedByYearCompany(pub_out)
        /\ OneRowPerPanelRow(pub_out, pub_balanced)

(* the developer file has three rows and is not in the order of the       *)
(* balanced panel: a company with two years before a company whose year   *)
(* is the earlier one                                                     *)
C19_Witness ==
    /\ BothFilesWritten
    /\ Len(dev_out) = 3
    /\ dev_out # dev_balanced
    /\ dev_balanced[1].company_id = dev_balanced[2].company_id
    /\ dev_balanced[3].Year = dev_balanced[1].Year

----------------------------------------------------------------------------
(* The analyzer on the written developer file *)

Analyzed == pc = "analyzed"

(* the rows of the file the analyzer is to describe: year within          *)
(* [YEAR_MIN, YEAR_MAX] and a share above zero                            *)
DescribedRows ==
    {i \in 1..Len(dev_out) :
        /\ YEAR_MIN <= dev_out[i].Year
        /\ dev_out[i].Year <= YEAR_MAX
        /\ \E k \in 1..Len(genre_cols) :
              notna(dev_out[i].shares[k]) /\ dev_out[i].shares[k][1][1] > 0}

(* C20: for every row of the written panel whose Year is in               *)
(* [YEAR_MIN, YEAR_MAX] and whose shares are not all zero,                *)
(* calculate_diversity_metrics emits one record, computed over all the    *)
(* category_N_genre_M_share columns of the row                            *)
C20_OneRecordPerPanelRow ==
    Analyzed =>
        \A i \in DescribedRows :
            Cardinality({d \in 1..Len(developer_diversity) :
                /\ developer_diversity[d].company_id = dev_out[i].company_id
                /\ developer_diversity[d].Year = dev_out[i].Year
                /\ developer_diversity[d].num_genres =
                       Cardinality({k \in 1..Len(genre_cols) :
                           /\ notna(dev_out[i].shares[k])
                           /\ dev_out[i].shares[k][1][1] > 0})}) = 1

(* C20, what the code does on the files the pipeline writes: no column    *)
(* of the file starts with "genre_", so no record is emitted              *)
C20_NoRecordForPipelineFiles ==
    Analyzed => developer_diversity = << >>

----------------------------------------------------------------------------
(* utils.build_category_mappings on its own: the identifiers as text      *)

(* An identifier is the sequence of its lexemes: "_", a digit, "-", or a  *)
(* run of letters                                                         *)
Digits == {"0", "1", "2", "3", "5", "6", "7", "9"}

DigitValue(d) ==
    CASE d = "0" -> 0 [] d = "1" -> 1 [] d = "2" -> 2 [] d = "3" -> 3
      [] d = "5" -> 5 [] d = "6" -> 6 [] d = "7" -> 7 [] d = "9" -> 9

(* col.split('_'): the pieces between the underscores, empty ones kept *)
RECURSIVE split(_)
split(col) ==
    LET at == {i \in 1..Len(col) : col[i] = "_"}
    IN  IF at = {} THEN << col >>
        ELSE LET i == Min(at)
             IN  << SubSeq(col, 1, i - 1) >>
                     \o split(SubSeq(col, i + 1, Len(col)))

(* int(text) raises ValueError unless text is a run of digits with an     *)
(* optional sign before it                                                *)
unsigned(text) ==
    IF Len(text) > 0 /\ text[1] = "-" THEN Tail(text) ELSE text

int_raises(text) ==
    \/ Len(unsigned(text)) = 0
    \/ \E i \in 1..Len(unsigned(text)) : unsigned(text)[i] \notin Digits

RECURSIVE decimal(_)
decimal(digits) ==
    IF Len(digits) = 0 THEN 0
    ELSE 10 * decimal(SubSeq(digits, 1, Len(digits) - 1))
             + DigitValue(digits[Len(digits)])

int(text) ==
    IF Len(text) > 0 /\ text[1] = "-"
    THEN 0 - decimal(unsigned(text)) ELSE decimal(unsigned(text))

(* lines 191-192 on one identifier: parts[1] raises IndexError when the   *)
(* identifier has no underscore, int() raises ValueError                  *)
column_raises(col) ==
    IF Len(split(col)) < 2 THEN Val("IndexError")
    ELSE IF int_raises(split(col)[2]) THEN Val("ValueError")
    ELSE NaN

(* the exception of the first identifier of the list that raises *)
mapping_raises(cols) ==
    LET bad == {k \in 1..Len(cols) : notna(column_raises(cols[k]))}
    IN  IF bad = {} THEN NaN ELSE column_raises(cols[Min(bad)])

(* the identifiers as build_category_mappings reads them: the split       *)
(* parts, the second one as the integer int() returns                     *)
split_columns(cols) ==
    [k \in 1..Len(cols) |->
        [split(cols[k]) EXCEPT ![2] = int(split(cols[k])[2])]]

MaxColumns == 3

category_N_genre_M(n, m) == <<"category", "_">> \o n \o <<"_", "genre", "_">> \o m

(* Identifiers of the form category_<N>_genre_<M>, N and M positive *)
WellFormedIdentifiers ==
    { category_N_genre_M(<<"1">>, <<"1">>),
      category_N_genre_M(<<"1">>, <<"2">>),
      category_N_genre_M(<<"2">>, <<"5">>),
      category_N_genre_M(<<"1", "2">>, <<"1">>) }

(* Identifiers of another form: category_, title, category_x_genre_1,     *)
(* category_0_genre_1, category_-1_genre_1, category_1_genre_x,           *)
(* category_1, genre_1_category_1                                         *)
OtherIdentifiers ==
    { <<"category", "_">>,
      <<"title">>,
      category_N_genre_M(<<"x">>, <<"1">>),
      category_N_genre_M(<<"0">>, <<"1">>),
      category_N_genre_M(<<"-", "1">>, <<"1">>),
      category_N_genre_M(<<"1">>, <<"x">>),
      <<"category", "_", "1">>,
      <<"genre", "_", "1", "_", "category", "_", "1">> }

ColumnLists ==
    UNION {[1..n -> WellFormedIdentifiers \cup OtherIdentifiers] :
              n \in 0..MaxColumns}

(* the pipeline has not started *)
PipelineIdle ==
    /\ games_genres_df = <<>>
    /\ developers_df = <<>>
    /\ dev_rows_df = <<>>
    /\ dev_shares_df = <<>>
    /\ dev_balanced = <<>>
    /\ dev_out = <<>>
    /\ missing_files = {}
    /\ db_rows = <<>>
    /\ games_df = <<>>
    /\ publishers_df = <<>>
    /\ genres_df = <<>>
    /\ pub_rows_df = <<>>
    /\ pub_shares_df = <<>>
    /\ pub_balanced = <<>>
    /\ pub_out = <<>>
    /\ checks = <<>>
    /\ warnings = <<>>
    /\ audit_report = NaN
    /\ error = NaN
    /\ exit_status = NaN
    /\ developer_diversity = <<>>

InitMapper ==
    /\ pc = "build_category_mappings"
    /\ PipelineIdle
    /\ ExtractIdle
    /\ TrackerIdle
    /\ column_names \in ColumnLists
    /\ mappings = NaN

(* utils.build_category_mappings(genre_cols), lines 175-199 *)
BuildCategoryMappings ==
    /\ pc = "build_category_mappings"
    /\ IF notna(mapping_raises(column_names))
       THEN /\ error' = mapping_raises(column_names)
            /\ pc' = "raised"
            /\ UNCHANGED mappings
       ELSE /\ mappings' =
                   Val(build_category_mappings(split_columns(column_names)))
            /\ pc' = "returned"
            /\ UNCHANGED error
    /\ UNCHANGED <<games_genres_df, developers_df, dev_rows_df,
                   dev_shares_df, dev_balanced, dev_out>>
    /\ UNCHANGED <<missing_files, db_rows, games_df, publishers_df,
                   genres_df, pub_rows_df, pub_shares_df, pub_balanced,
                   pub_out, checks, warnings, audit_report, exit_status,
                   developer_diversity>>
    /\ UNCHANGED <<column_names, extract_vars, tracker_vars>>

NextMapper == BuildCategoryMappings

SpecMapper == InitMapper /\ [][NextMapper]_vars

(* C21: build_category_mappings assigns every identifier of the list to   *)
(* exactly one category, its own: the category lists are pairwise         *)
(* disjoint, their union is the list, and each category's list is in the  *)
(* order of the input                                                     *)
C21_CategoriesPartitionColumns ==
    pc = "returned" =>
        LET category_cols == mappings[1]
            N == Len(column_names)
        IN  /\ \A k \in 1..N :
                  Cardinality({<<c, p>> \in UNION {{c} \X DOMAIN category_cols[c] :
                                                      c \in DOMAIN category_cols} :
                                  category_cols[c][p] = k}) = 1
            /\ \A c \in DOMAIN category_cols :
                  /\ Len(category_cols[c]) > 0
                  /\ \A p \in DOMAIN category_cols[c] :
                        /\ category_cols[c][p] \in 1..N
                        /\ int(split(column_names[category_cols[c][p]])[2]) = c
                  /\ \A p, q \in DOMAIN category_cols[c] :
                        p < q => category_cols[c][p] < category_cols[c][q]

(* three identifiers, the first and the last of one category and the      *)
(* second of another                                                      *)
C21_Witness ==
    /\ pc = "returned"
    /\ Len(column_names) = 3
    /\ DOMAIN mappings[1] = {1, 2}
    /\ mappings[1][1] = <<1, 3>>
    /\ mappings[1][2] = <<2>>

(* the form category_<N>_genre_<M> with N and M positive integers *)
positive_integer(text) ==
    /\ Len(text) > 0
    /\ \A i \in 1..Len(text) : text[i] \in Digits
    /\ decimal(text) > 0

well_formed(col) ==
    LET parts == split(col)
    IN  /\ Len(parts) = 4
        /\ parts[1] = <<"category">>
        /\ positive_integer(parts[2])
        /\ parts[3] = <<"genre">>
        /\ positive_integer(parts[4])

(* C22: build_category_mappings raises when an identifier of the list     *)
(* does not have the form category_<N>_genre_<M> with N and M positive    *)
(* integers, and returns only for lists of identifiers of that form       *)
C22_RaisesUnlessWellFormed ==
    pc \in {"returned", "raised"} =>
        (pc = "returned" <=>
            \A k \in 1..Len(column_names) : well_formed(column_names[k]))

(* C22, what the code checks: the call raises exactly when an identifier  *)
(* has no second part or a second part that is not an integer literal     *)
C22_RaisesWithoutCategoryNumber ==
    pc \in {"returned", "raised"} =>
        (pc = "raised" <=>
            \E k \in 1..Len(column_names) :
                \/ Len(split(column_names[k])) < 2
                \/ int_raises(split(column_names[k])[2]))

----------------------------------------------------------------------------
(* Sums of the shares of one category *)

(* the indicators of category cat *)
IndicatorsOf(cat) == {k \in 1..Len(genre_cols) : genre_cols[k][2] = cat}

CategoryIds == {genre_cols[k][2] : k \in 1..Len(genre_cols)}

(* the rows of company c up to year y with an indicator of cat set *)
ActiveGames(c, y, cat) ==
    {i \in History(c, y) : \E k \in IndicatorsOf(cat) : dev_rows_df[i].genres[k] = 1}

(* the number of indicators of cat that row i sets *)
IndicatorsSet(i, cat) ==
    Cardinality({k \in IndicatorsOf(cat) : dev_rows_df[i].genres[k] = 1})

RECURSIVE SumOver(_, _)
SumOver(S, f) ==
    IF S = {} THEN 0
    ELSE LET x == CHOOSE x \in S : TRUE IN f[x] + SumOver(S \ {x}, f)

(* C23: for every output record and category c with k_c > 0 active games  *)
(* in the company's history, the shares of the indicators of c sum to     *)
(* (indicators of c set over the active games) / k_c; the sum is at       *)
(* least 1 and above 1 exactly when an active game sets more than one     *)
(* indicator of c                                                         *)
C23_CategorySharesSum ==
    EngineReturned =>
        \A p \in ShareIdx : \A cat \in CategoryIds :
            LET r == dev_shares_df[p]
                active == ActiveGames(r.company_id, r.Year, cat)
                kc == Cardinality(active)
                total == SumOver(active, [i \in active |-> IndicatorsSet(i, cat)])
                \* share[k] * kc, an integer when share[k] is a count over kc
                times_kc == [k \in IndicatorsOf(cat) |->
                                (r.shares[k][1][1] * kc) \div r.shares[k][1][2]]
            IN  kc > 0 =>
                /\ \A k \in IndicatorsOf(cat) :
                      /\ notna(r.shares[k])
                      /\ (r.shares[k][1][1] * kc) % r.shares[k][1][2] = 0
                /\ SumOver(IndicatorsOf(cat), times_kc) = total
                /\ SumOver(IndicatorsOf(cat), times_kc) >= kc
                /\ (SumOver(IndicatorsOf(cat), times_kc) > kc
                       <=> \E i \in active : IndicatorsSet(i, cat) > 1)

(* a record whose category 1 shares sum to 3/2: two active games, one of  *)
(* them with both indicators of the category set                          *)
C23_Witness ==
    /\ EngineReturned
    /\ \E p \in ShareIdx :
          LET r == dev_shares_df[p]
              active == ActiveGames(r.company_id, r.Year, 1)
          IN  /\ Cardinality(active) = 2
              /\ \E i \in active : IndicatorsSet(i, 1) = 2
              /\ \E i \in active : IndicatorsSet(i, 1) = 1
              /\ Cardinality(History(r.company_id, r.Year)) = 3
              /\ r.shares[1] = Val(<<1, 1>>)
              /\ r.shares[2] = Val(<<1, 2>>)

----------------------------------------------------------------------------
(* Category independence of the engine *)

GameIds == {dev_rows_df[i].game_id : i \in RowIdx}

MaxCategoryGames == 2

(* the pass on the catalogs of at most MaxCategoryGames games *)
InitCategory ==
    /\ Init
    /\ developers_df = NamedLookup
    /\ Len(games_genres_df) <= MaxCategoryGames

SpecCategory == InitCategory /\ [][Next]_vars

(* the row set with the indicators outside category cat replaced: row i   *)
(* takes them from other[game_id], the indicators of cat stay             *)
with_other_indicators(rows, cat, other) ==
    [i \in 1..Len(rows) |->
        [rows[i] EXCEPT !.genres =
            [k \in 1..Len(genre_cols) |->
                IF k \in IndicatorsOf(cat) THEN rows[i].genres[k]
                ELSE other[rows[i].game_id][k]]]]

(* the shares of the indicators of cat in a frame *)
category_shares(frame, cat) ==
    [p \in 1..Len(frame) |->
        [company_id |-> frame[p].company_id,
         Year       |-> frame[p].Year,
         shares     |-> [k \in IndicatorsOf(cat) |-> frame[p].shares[k]]]]

(* C24: the shares of category c of every (company, year) are the same    *)
(* for every row set with the same (game, company, year) rows and the     *)
(* same indicators of c, whatever the indicators of the other categories  *)
C24_CategoryIndependent ==
    EngineReturned =>
        \A cat \in CategoryIds :
            \A other \in [GameIds -> [(1..Len(genre_cols)) \ IndicatorsOf(cat)
                                          -> {0, 1}]] :
                category_shares(
                    compute_company_shares(
                        with_other_indicators(dev_rows_df, cat, other),
                        developers_df, genre_cols), cat)
                    = category_shares(dev_shares_df, cat)

(* two games of one company, one with the indicator of category 2 set,   *)
(* the other without: the share is 1/1 whatever category 1 holds          *)
C24_Witness ==
    /\ EngineReturned
    /\ \E i, j \in RowIdx :
          /\ dev_rows_df[i].company_id = dev_rows_df[j].company_id
          /\ IndicatorsSet(i, 2) = 1
          /\ IndicatorsSet(j, 2) = 0
          /\ IndicatorsSet(j, 1) = 1
    /\ \E p \in ShareIdx :
          /\ dev_shares_df[p].num_games = Val(2)
          /\ dev_shares_df[p].shares[3] = Val(<<1, 1>>)

----------------------------------------------------------------------------
(* The back-fill of balance_company_panel *)

(* a column of the resampled frame after groupby(level=0)[col].ffill():   *)
(* no cell is null, and bfill() returns the column unchanged              *)
BackFillIdle(cells, keys) ==
    LET forward == groupby_ffill(cells, keys)
    IN  /\ \A i \in 1..Len(forward) : notna(forward[i])
        /\ bfill(forward) = forward

(* the columns of the resampled frame of the pass that are named in       *)
(* fields, and the share columns when with_shares, are idle               *)
BackFillIdleOn(fields, with_shares) ==
    LET resampled == resample(dev_shares_df)
        n == Len(resampled)
        keys == [i \in 1..n |-> resampled[i].company_id]
    IN  /\ \A f \in fields :
              BackFillIdle([i \in 1..n |-> resampled[i][f]], keys)
        /\ with_shares =>
              \A k \in 1..Len(genre_cols) :
                  BackFillIdle([i \in 1..n |-> resampled[i].shares[k]], keys)

(* C25: in balance_company_panel the back-fill never changes a value:     *)
(* after the per-company forward-fill no row has a null num_games, share  *)
(* or company name                                                        *)
C25_BackFillNeverChangesValue ==
    FileWritten => BackFillIdleOn({"num_games", "name"}, TRUE)

(* C25, the part the code keeps: num_games and the shares are complete    *)
(* after the forward-fill                                                 *)
C25_BackFillKeepsCounts ==
    FileWritten => BackFillIdleOn({"num_games"}, TRUE)

----------------------------------------------------------------------------
(* extract_games_from_db on its own: the rows of the games table as       *)
(* stored, raw_data as the JSON text holds it                             *)

(* One entry of raw_data['developers'] or raw_data['publishers']: an      *)
(* object with an 'id', an object without, or a JSON number               *)
Entry(id) == [is_dict |-> TRUE, id |-> Val(id)]
EntryWithoutId == [is_dict |-> TRUE, id |-> NaN]
NumberEntry == [is_dict |-> FALSE, id |-> NaN]

(* One release_date value: a JSON string (its text as lexemes) or another *)
(* JSON value (a number, null)                                            *)
DateString(text) == [is_str |-> TRUE, text |-> text]
DateNumber(text) == [is_str |-> FALSE, text |-> text]

(* release_date.split('-')[0] *)
year_match(text) ==
    LET at == {i \in 1..Len(text) : text[i] = "-"}
    IN  IF at = {} THEN text ELSE SubSeq(text, 1, Min(at) - 1)

(* lines 95-108 on one release date: the year appended to dates when the  *)
(* range check is left aside; nothing for a falsy value, a value that is  *)
(* not a string, or a text int() rejects                                  *)
date_year(date) ==
    IF Len(date.text) > 0 /\ date.is_str /\ ~int_raises(year_match(date.text))
    THEN << int(year_match(date.text)) >>
    ELSE << >>

(* lines 75-118 on one row: the exception the except clause of line 120   *)
(* catches, NaN when the row is parsed.  json.loads raises                *)
(* JSONDecodeError; 'developers' in raw_data raises TypeError for a       *)
(* number; 'id' in dev raises TypeError for an entry that is a number     *)
row_raises(raw_data) ==
    IF raw_data.json = "invalid" THEN Val("JSONDecodeError")
    ELSE IF raw_data.json = "number" THEN Val("TypeError")
    ELSE IF \E e \in Range(raw_data.developers) \cup Range(raw_data.publishers) :
                ~e.is_dict
         THEN Val("TypeError")
    ELSE NaN

(* [dev['id'] for dev in raw_data[...] if 'id' in dev] *)
ids_of(entries) ==
    LET with_id == Take(entries, {i \in 1..Len(entries) : notna(entries[i].id)})
    IN  [p \in 1..Len(with_id) |-> with_id[p].id[1]]

(* the row of a parsed payload: its id lists and the years int() read     *)
(* from its release dates                                                 *)
parsed_row(row) ==
    [game_id       |-> row.game_id,
     developers    |-> ids_of(row.raw_data.developers),
     publishers    |-> ids_of(row.raw_data.publishers),
     release_dates |-> Flatten([i \in 1..Len(row.raw_data.dates) |->
                                   date_year(row.raw_data.dates[i])])]

(* Texts of release dates: 1969, 1970-01-01, 1995-03-01, 2026-12-31,      *)
(* 2027, TBA                                                              *)
DateText ==
    [y1969 |-> <<"1", "9", "6", "9">>,
     d1970 |-> <<"1", "9", "7", "0", "-", "0", "1", "-", "0", "1">>,
     d1995 |-> <<"1", "9", "9", "5", "-", "0", "3", "-", "0", "1">>,
     d2026 |-> <<"2", "0", "2", "6", "-", "1", "2", "-", "3", "1">>,
     y2027 |-> <<"2", "0", "2", "7">>,
     tba   |-> <<"TBA">>]

(* Release dates of one game, over its platforms, in payload order *)
RawDateLists ==
    { << >>,
      << DateString(DateText.y1969) >>,
      << DateString(DateText.d1995) >>,
      << DateString(DateText.y2027) >>,
      << DateString(DateText.d2026), DateString(DateText.d1970) >>,
      << DateString(DateText.y1969), DateString(DateText.y2027) >>,
      << DateString(DateText.tba), DateNumber(<<"1", "9", "9", "5">>) >>,
      << DateString(<< >>), DateString(DateText.d1995), DateString(DateText.y2027) >> }

RawDevelopers ==
    { << >>, << Entry(1) >>, << Entry(1), EntryWithoutId >>,
      << Entry(2), NumberEntry >> }

RawPublishers == { << >>, << Entry(1) >> }

InvalidJson ==
    [json |-> "invalid", developers |-> << >>, publishers |-> << >>,
     dates |-> << >>]

JsonNumber ==
    [json |-> "number", developers |-> << >>, publishers |-> << >>,
     dates |-> << >>]

RawPayloads ==
    [json : {"object"}, developers : RawDevelopers,
     publishers : RawPublishers, dates : RawDateLists]
        \cup {InvalidJson, JsonNumber}

MaxRawGames == 2
MaxBlockGames == 10

(* the table that holds the payloads of f, game ids in table order *)
RawTable(f) == [i \in DOMAIN f |-> [game_id |-> i, raw_data |-> f[i]]]

CompleteGame ==
    [json |-> "object", developers |-> << Entry(1) >>,
     publishers |-> << Entry(1) >>, dates |-> << DateString(DateText.d1995) >>]

GameWithoutYear ==
    [json |-> "object", developers |-> << Entry(1) >>,
     publishers |-> << Entry(1) >>, dates |-> << >>]

(* a complete games, then b games without a release date, then c rows     *)
(* that are not JSON                                                      *)
BlockTable(a, b, c) ==
    RawTable([i \in 1..(a + b + c) |->
                 IF i <= a THEN CompleteGame
                 ELSE IF i <= a + b THEN GameWithoutYear
                 ELSE InvalidJson])

RawTables ==
    UNION {{RawTable(f) : f \in [1..n -> RawPayloads]} : n \in 0..MaxRawGames}
    \cup {BlockTable(n[1], n[2], n[3]) :
             n \in {m \in (0..MaxBlockGames) \X (0..MaxBlockGames)
                              \X (0..MaxBlockGames) :
                        /\ m[1] + m[2] + m[3] <= MaxBlockGames
                        /\ m[1] + m[2] + m[3] > MaxRawGames}}

(* The years in which the run may take place *)
RunYears == {MaxValidYear, MaxValidYear + 1}

(* the number of parsing errors that are logged one by one *)
MaxLoggedErrors == 5

InitExtract ==
    /\ pc = "parse_rows"
    /\ PipelineIdle
    /\ MapperIdle
    /\ TrackerIdle
    /\ raw_rows \in RawTables
    /\ run_year \in RunYears
    /\ parse_errors = 0
    /\ logged_errors = 0

(* the rows the loop of line 75 has gone through *)
rows_done == Len(db_rows) + parse_errors

(* extract_games_from_db, lines 75-124: one iteration of the loop.        *)
(* db_rows collects the parsed payloads, games_df is games_data.          *)
ParseGame ==
    /\ pc = "parse_rows"
    /\ rows_done < Len(raw_rows)
    /\ LET row == raw_rows[rows_done + 1]
       IN  IF notna(row_raises(row.raw_data))
           THEN /\ parse_errors' = parse_errors + 1
                /\ logged_errors' =
                       IF parse_errors + 1 <= MaxLoggedErrors
                       THEN logged_errors + 1 ELSE logged_errors
                /\ UNCHANGED <<db_rows, games_df>>
           ELSE /\ db_rows' = Append(db_rows, parsed_row(row))
                /\ games_df' = games_df
                       \o extract_games_from_db(<< parsed_row(row) >>)
                /\ UNCHANGED <<parse_errors, logged_errors>>
    /\ UNCHANGED <<pc, games_genres_df, developers_df, dev_rows_df,
                   dev_shares_df, dev_balanced, dev_out>>
    /\ UNCHANGED <<missing_files, publishers_df,
                   genres_df, pub_rows_df, pub_shares_df, pub_balanced,
                   pub_out, checks, warnings, audit_report, error,
                   exit_status, developer_diversity>>
    /\ UNCHANGED <<mapper_vars, tracker_vars, raw_rows, run_year>>

(* extract_games_from_db, lines 126-182: the frame is built and the       *)
(* checks are recorded; an empty frame raises at line 138                 *)
FinishExtraction ==
    /\ pc = "parse_rows"
    /\ rows_done = Len(raw_rows)
    /\ checks' = checks \o extract_checks(db_rows)
    /\ warnings' = warnings \o
           When(parse_errors > 0,
                Warning("games had parsing errors", << parse_errors >>))
    /\ IF extract_raises(db_rows)
       THEN error' = Val("KeyError") /\ pc' = "raised"
       ELSE error' = error /\ pc' = "returned"
    /\ UNCHANGED <<games_genres_df, developers_df, dev_rows_df,
                   dev_shares_df, dev_balanced, dev_out>>
    /\ UNCHANGED <<missing_files, db_rows, games_df, publishers_df,
                   genres_df, pub_rows_df, pub_shares_df, pub_balanced,
                   pub_out, audit_report, exit_status,
                   developer_diversity>>
    /\ UNCHANGED unit_vars

NextExtract ==
    \/ ParseGame
    \/ FinishExtraction

SpecExtract == InitExtract /\ [][NextExtract]_vars

(* The years read from the release dates of one payload that lie between  *)
(* 1970 and last_year                                                     *)
ResolvableYears(dates, last_year) ==
    {y \in UNION {Range(date_year(dates[i])) : i \in 1..Len(dates)} :
        MinValidYear <= y /\ y <= last_year}

ReleaseYearIsMinimumUpTo(last_year) ==
    \A p \in 1..Len(games_df) :
        LET years == ResolvableYears(
                         raw_rows[games_df[p].game_id].raw_data.dates,
                         last_year)
        IN  games_df[p].release_year =
                IF years = {} THEN NaN ELSE Val(Min(years))

(* C26: the release_year of every extracted game is the minimum of the    *)
(* years of its release dates that parse as an integer between 1970 and   *)
(* the year of the run, and is null exactly when there is no such year    *)
C26_ReleaseYearIsMinimumValidYear == ReleaseYearIsMinimumUpTo(run_year)

(* C26, the part the code keeps: the same with 2026, the year written in  *)
(* line 104, as the last year                                             *)
C26_ReleaseYearIsMinimumUpTo2026 == ReleaseYearIsMinimumUpTo(MaxValidYear)

(* The rows of the table whose payload fails to parse *)
FailingRows == {i \in 1..Len(raw_rows) : notna(row_raises(raw_rows[i].raw_data))}

(* The records of a table, each payload that parses taken on its own *)
records_of_table(rows) ==
    extract_games_from_db(
        [p \in 1..Len(rows) |-> parsed_row(rows[p])])

(* the table without its row i *)
without_row(rows, i) == Take(rows, (1..Len(rows)) \ {i})

ExtractionEnded == pc \in {"returned", "raised"} /\ Len(raw_rows) > 0

(* what a failing payload leaves behind: no record of the game, one more  *)
(* parse error of which the first five are logged, and the records of the *)
(* other games as the table without the failing row gives them            *)
FailingRowsAreSkipped ==
    /\ parse_errors = Cardinality({i \in FailingRows : i <= rows_done})
    /\ logged_errors =
           IF parse_errors <= MaxLoggedErrors THEN parse_errors
           ELSE MaxLoggedErrors
    /\ ExtractionEnded =>
           \A i \in FailingRows :
               /\ \A p \in 1..Len(games_df) : games_df[p].game_id # i
               /\ games_df =
                      records_of_table(
                          Take(without_row(raw_rows, i),
                               {p \in 1..(Len(raw_rows) - 1) :
                                   isna(row_raises(
                                       without_row(raw_rows, i)[p].raw_data))}))

(* C27: when the payload of a game fails to parse, extract_games_from_db  *)
(* does not raise, the game has no record, the parse errors are counted   *)
(* and the first five logged, and the other games have the records they   *)
(* would have without the failing game                                    *)
C27_ParseFailureIsSkippedWithoutRaise ==
    /\ FailingRowsAreSkipped
    /\ (ExtractionEnded /\ FailingRows # {}) =>
           (pc = "returned" /\ isna(error))

(* C27, the part the code keeps: the failing games are skipped and        *)
(* counted, and the function returns when some game of the table parses   *)
C27_ParseFailureIsSkipped ==
    /\ FailingRowsAreSkipped
    /\ (ExtractionEnded /\ FailingRows # {} /\ Len(games_df) > 0) =>
           (pc = "returned" /\ isna(error))

(* The extracted games without a developer id, without a publisher id,    *)
(* without a release year                                                 *)
NoDeveloper == {p \in 1..Len(games_df) : Len(games_df[p].developer_ids) = 0}
NoPublisher == {p \in 1..Len(games_df) : Len(games_df[p].publisher_ids) = 0}
NoYear == {p \in 1..Len(games_df) : isna(games_df[p].release_year)}

(* the passed values of the checks recorded under one name *)
PassedOf(name) ==
    {checks[i].passed : i \in {j \in 1..Len(checks) : checks[j].check = name}}

(* more than percent per cent of the extracted games are in missing *)
Above(missing, percent) ==
    100 * Cardinality(missing) > percent * Len(games_df)

(* the check is recorded once; it is failed only above the threshold and  *)
(* passed up to the threshold, the empty catalog included                 *)
FailsOnlyAbove(name, missing, percent) ==
    /\ FALSE \in PassedOf(name) => Above(missing, percent)
    /\ ~Above(missing, percent) => TRUE \in PassedOf(name)

(* for a catalog with a game the check is failed from the threshold on;   *)
(* for the empty catalog it is not recorded                               *)
FailsFrom(name, missing, percent) ==
    IF Len(games_df) = 0
    THEN PassedOf(name) = {} /\ pc = "raised"
    ELSE PassedOf(name) =
             {100 * Cardinality(missing) < percent * Len(games_df)}

(* C28: after the extraction, 'Games with developers' and 'Games with     *)
(* publishers' are failed only if more than 50% of the extracted games    *)
(* have no id of the role, 'Games with release year' only if more than    *)
(* 30% have no release year; at the threshold and for an empty catalog    *)
(* the check is passed                                                    *)
C28_ChecksFailOnlyAboveThreshold ==
    pc \in {"returned", "raised"} =>
        /\ FailsOnlyAbove("Games with developers", NoDeveloper, 50)
        /\ FailsOnlyAbove("Games with publishers", NoPublisher, 50)
        /\ FailsOnlyAbove("Games with release year", NoYear, 30)

(* C28, what the code does: each check is failed from its threshold on,   *)
(* and none of the three is recorded for an empty catalog                 *)
C28_ChecksFailFromThreshold ==
    pc \in {"returned", "raised"} =>
        /\ FailsFrom("Games with developers", NoDeveloper, 50)
        /\ FailsFrom("Games with publishers", NoPublisher, 50)
        /\ FailsFrom("Games with release year", NoYear, 30)

(* the release-year check is failed with exactly 30% of the games, here   *)
(* 3 of 10, without a release year                                        *)
C28_FailedAtThreshold ==
    /\ pc = "returned"
    /\ Len(games_df) = 10
    /\ Cardinality(NoYear) = 3
    /\ FALSE \in PassedOf("Games with release year")

----------------------------------------------------------------------------
(* VerificationTracker on its own: any sequence of add_check and          *)
(* add_warning calls.  The timestamp of an entry is left out.             *)

MaxChecks == 3
MaxWarnings == 2

CheckNames == {"Games extracted", "Unique company-years"}
CheckDetails == {<< >>}
WarningMessages == {"games have no genre vectors", "games had parsing errors"}

(* a variant of errors_after that appends every entry *)
errors_after_any(recorded_errors, result) == Append(recorded_errors, result)

(* add_check, lines 77-78: self.errors after the call *)
errors_after(recorded_errors, result) ==
    IF ~result.passed THEN Append(recorded_errors, result)
    ELSE recorded_errors

(* log_summary, line 116: the count after 'Failed:' *)
summary_failed(recorded) ==
    Cardinality({i \in 1..Len(recorded) : ~recorded[i].passed})

(* VerificationTracker.__init__ *)
InitTracker ==
    /\ pc = "tracking"
    /\ PipelineIdle
    /\ MapperIdle
    /\ ExtractIdle
    /\ errors = << >>

(* VerificationTracker.add_check *)
AddCheck ==
    /\ pc = "tracking"
    /\ Len(checks) < MaxChecks
    /\ \E check_name \in CheckNames, passed \in BOOLEAN,
          details \in CheckDetails :
           LET result == Check(check_name, passed, details)
           IN  /\ checks' = Append(checks, result)
               /\ errors' = errors_after(errors, result)
    /\ UNCHANGED <<pc, games_genres_df, developers_df, dev_rows_df,
                   dev_shares_df, dev_balanced, dev_out>>
    /\ UNCHANGED <<missing_files, db_rows, games_df, publishers_df,
                   genres_df, pub_rows_df, pub_shares_df, pub_balanced,
                   pub_out, warnings, audit_report, error, exit_status,
                   developer_diversity>>
    /\ UNCHANGED <<mapper_vars, extract_vars>>

(* VerificationTracker.add_warning *)
AddWarning ==
    /\ pc = "tracking"
    /\ Len(warnings) < MaxWarnings
    /\ \E message \in WarningMessages :
           warnings' = Append(warnings, Warning(message, << >>))
    /\ UNCHANGED <<pc, games_genres_df, developers_df, dev_rows_df,
                   dev_shares_df, dev_balanced, dev_out>>
    /\ UNCHANGED <<missing_files, db_rows, games_df, publishers_df,
                   genres_df, pub_rows_df, pub_shares_df, pub_balanced,
                   pub_out, checks, audit_report, error, exit_status,
                   developer_diversity>>
    /\ UNCHANGED unit_vars

NextTracker ==
    \/ AddCheck
    \/ AddWarning

SpecTracker == InitTracker /\ [][NextTracker]_vars

(* The entries of checks that did not pass, in recording order *)
FailedChecks == Take(checks, {i \in 1..Len(checks) : ~checks[i].passed})

(* C29: after any sequence of add_check and add_warning calls, errors is  *)
(* the subsequence of the failed entries of checks in recording order and *)
(* the failed count of the summary is len(errors); add_warning changes    *)
(* neither checks nor errors, add_check does not change warnings          *)
C29_ErrorsAreTheFailedChecks ==
    /\ [](errors = FailedChecks /\ summary_failed(checks) = Len(errors))
    /\ [][AddWarning => UNCHANGED <<checks, errors>>]_vars
    /\ [][AddCheck => UNCHANGED warnings]_vars

(* a passed check, two failed ones and a warning have been recorded *)
C29_Witness ==
    /\ pc = "tracking"
    /\ Len(warnings) > 0
    /\ Len(errors) = 2
    /\ Len(checks) = 3
    /\ checks[2].passed

----------------------------------------------------------------------------
(* compute_company_shares on an empty set of company rows *)

(* compute_company_shares has been called for the developers with no      *)
(* company row: both expansions are done and the call is behind           *)
ComputedOnEmptyRows ==
    /\ PassedOf("Publisher rows created") # {}
    /\ pc # "compute_developer"
    /\ dev_rows_df = << >>

FailedRowsCreatedCheck ==
    PassedOf("Developer-year rows created") = {FALSE}

(* C30: with an empty set of company rows compute_company_shares records  *)
(* the failed '<role>-year rows created' check and returns an empty panel *)
(* without raising, and the run goes on to the output stage               *)
C30_EmptyRowsGiveEmptyPanel ==
    ComputedOnEmptyRows =>
        /\ FailedRowsCreatedCheck
        /\ dev_shares_df = << >>
        /\ isna(error)
        /\ pc # "except"
        /\ RunExited => BothFilesWritten

(* C30, what the code does: the failed check is recorded, then the call   *)
(* raises ZeroDivisionError and the run ends without a file               *)
C30_EmptyRowsAbortRun ==
    ComputedOnEmptyRows =>
        /\ FailedRowsCreatedCheck
        /\ dev_shares_df = << >>
        /\ error = Val("ZeroDivisionError")
        /\ dev_out = << >> /\ pub_out = << >>

(* a run that computed the developers' shares on no company row has ended *)
C30_AbortedRunEnded == ComputedOnEmptyRows /\ RunExited

====
